---- MODULE Spec2Model ----
(***************************************************************************)
(* A model of the penguin gateway core: the builder (init_routes,          *)
(* ClusterManager::new, build_plugin_list), the route matcher (MatchEntry  *)
(* over a matchit router and a regex list), the plugin pipeline and the    *)
(* per-request phases of Proxy (impl ProxyHttp).                           *)
(*                                                                         *)
(* Strings are sequences of one-character strings, so that prefixes,       *)
(* suffixes, replacement and pattern matching are computed, not assumed.   *)
(* An Option<T> is a sequence of length 0 (None) or 1 (Some).              *)
(***************************************************************************)
EXTENDS Integers, Sequences, FiniteSets, TLC

VARIABLES
    config,      \* the validated Config record main() runs with
    bpc,         \* position of main(): which builder call comes next
    si,          \* index of the service being built (main.rs loop)
    ri,          \* index of the next route of init_routes' loop
    matcher,     \* the MatchEntry under construction for service si
    last_insert, \* what the last iteration of init_routes' loop did
    cur_clusters,\* the ClusterManager built for service si (Option)
    svcs,        \* the services built so far (main.rs `svcs`)
    app_err,     \* the error main() returned (Option)
    rate,        \* the Rate counters of every cms_rate instance
    reqs,        \* the requests in flight, one record per request
    probe,       \* the last direct call of match_request / upstream_peer
    now,         \* the number of the current interval of the Rate estimators
    log_level    \* the level filter the logger was initialised with

vars == <<config, bpc, si, ri, matcher, last_insert, cur_clusters, svcs,
          app_err, rate, reqs, probe, now, log_level>>

(***************************************************************************)
(* Bounds of the model.                                                    *)
(***************************************************************************)
MaxChunks == 2
MaxRoutes == 3
MaxClusters == 2
MaxRnd == 2
MaxTicks == 1

(***************************************************************************)
(* Option and string helpers.                                              *)
(***************************************************************************)
None == <<>>
Some(x) == <<x>>
IsSome(o) == Len(o) = 1
Unwrap(o) == o[1]

Range(s) == {s[i] : i \in DOMAIN s}

StartsWith(s, p) ==
    /\ Len(p) <= Len(s)
    /\ SubSeq(s, 1, Len(p)) = p

EndsWith(s, p) ==
    /\ Len(p) <= Len(s)
    /\ SubSeq(s, Len(s) - Len(p) + 1, Len(s)) = p

Drop(s, n) == SubSeq(s, n + 1, Len(s))

\* str::replace(from, to) for a one-character `from`: every occurrence.
RECURSIVE ReplaceAll(_, _, _)
ReplaceAll(s, ch, to) ==
    IF s = <<>> THEN <<>>
    ELSE (IF Head(s) = ch THEN to ELSE <<Head(s)>>) \o ReplaceAll(Tail(s), ch, to)

\* The literal r"{*rest}" of builder/mod.rs.
REST == <<"{", "*", "r", "e", "s", "t", "}">>

(***************************************************************************)
(* matchit::Router as MatchEntry uses it (process.rs: non_reg_uri).  A     *)
(* route is parsed into segments: a literal character, a named parameter   *)
(* {name} (one path segment) or a catch-all {*name} (the non-empty rest of *)
(* the path, only at the end of the route).  {{ and }} are the literal     *)
(* braces.                                                                 *)
(***************************************************************************)
Seg(t, v) == [t |-> t, v |-> v]

BadRoute(e) == [ok |-> FALSE, err |-> e, segs |-> <<>>]

ConsSeg(s, r) == IF r.ok THEN [r EXCEPT !.segs = <<s>> \o r.segs] ELSE r

\* Index of the first "}" of p at or after i; 0 when there is none.
RECURSIVE FindClose(_, _)
FindClose(p, i) ==
    IF i > Len(p) THEN 0
    ELSE IF p[i] = "}" THEN i
    ELSE FindClose(p, i + 1)

RECURSIVE ParseFrom(_, _)
ParseFrom(p, i) ==
    IF i > Len(p) THEN [ok |-> TRUE, err |-> "", segs |-> <<>>]
    ELSE IF p[i] = "{" THEN
        IF i < Len(p) /\ p[i + 1] = "{"
        THEN ConsSeg(Seg("lit", <<"{">>), ParseFrom(p, i + 2))
        ELSE LET j == FindClose(p, i + 1) IN
             IF j = 0 \/ j = i + 1 THEN BadRoute("InvalidParam")
             ELSE IF p[i + 1] = "*" THEN
                 IF j = i + 2 THEN BadRoute("InvalidParam")
                 ELSE IF j # Len(p) THEN BadRoute("InvalidCatchAll")
                 ELSE [ok |-> TRUE, err |-> "",
                       segs |-> <<Seg("catchall", SubSeq(p, i + 2, j - 1))>>]
             ELSE IF j < Len(p) /\ p[j + 1] # "/"
                 THEN BadRoute("InvalidParamSegment")
             ELSE ConsSeg(Seg("param", SubSeq(p, i + 1, j - 1)), ParseFrom(p, j + 1))
    ELSE IF p[i] = "}" THEN
        IF i < Len(p) /\ p[i + 1] = "}"
        THEN ConsSeg(Seg("lit", <<"}">>), ParseFrom(p, i + 2))
        ELSE BadRoute("InvalidParam")
    ELSE ConsSeg(Seg("lit", <<p[i]>>), ParseFrom(p, i + 1))

ParseRoute(p) == ParseFrom(p, 1)

\* Length of the path segment u starts with: up to the next "/" or the end.
RECURSIVE SegLen(_)
SegLen(u) ==
    IF u = <<>> \/ Head(u) = "/" THEN 0 ELSE 1 + SegLen(Tail(u))

NoMatch == [ok |-> FALSE, params |-> <<>>]

\* Whether the parsed route matches the whole path u, and the parameters
\* bound, as <<name, value>> in the order of the route.
RECURSIVE MatchSegs(_, _)
MatchSegs(segs, u) ==
    IF segs = <<>> THEN [ok |-> u = <<>>, params |-> <<>>]
    ELSE LET s == Head(segs) IN
         IF s.t = "lit" THEN
             IF u # <<>> /\ Head(u) = s.v[1]
             THEN MatchSegs(Tail(segs), Tail(u))
             ELSE NoMatch
         ELSE IF s.t = "param" THEN
             LET n == SegLen(u) IN
             IF n = 0 THEN NoMatch
             ELSE LET r == MatchSegs(Tail(segs), Drop(u, n)) IN
                  IF r.ok THEN [ok |-> TRUE, params |-> <<<<s.v, SubSeq(u, 1, n)>>>> \o r.params]
                  ELSE NoMatch
         ELSE IF u = <<>> THEN NoMatch
         ELSE [ok |-> TRUE, params |-> <<<<s.v, u>>>>]

Rank(t) == IF t = "lit" THEN 0 ELSE IF t = "param" THEN 1 ELSE 2

\* matchit's search order among routes matching one path: at the first place
\* where two routes differ, a static child is tried before a parameter and a
\* parameter before a catch-all.
RECURSIVE Prefer(_, _)
Prefer(a, b) ==
    IF a = <<>> \/ b = <<>> THEN a = <<>>
    ELSE IF Head(a).t = Head(b).t /\ (Head(a).t # "lit" \/ Head(a).v = Head(b).v)
         THEN Prefer(Tail(a), Tail(b))
    ELSE Rank(Head(a).t) < Rank(Head(b).t)

\* Router::insert refuses a route that is the same as, or ambiguous with, a
\* registered one (InsertError::Conflict).
RECURSIVE Conflicts(_, _)
Conflicts(a, b) ==
    IF a = <<>> \/ b = <<>> THEN a = b
    ELSE IF Head(a).t = "lit" /\ Head(b).t = "lit"
         THEN Head(a).v = Head(b).v /\ Conflicts(Tail(a), Tail(b))
    ELSE IF Head(a).t = "lit" \/ Head(b).t = "lit" THEN FALSE
    ELSE IF Head(a) = Head(b) THEN Conflicts(Tail(a), Tail(b))
    ELSE TRUE

\* Router::new()
RouterNew == <<>>

\* Router::at(path): Some([params, value, idx]) of the route found, or None.
RouterAt(router, u) ==
    LET hits == {i \in DOMAIN router : MatchSegs(router[i].segs, u).ok} IN
    IF hits = {} THEN None
    ELSE LET best == CHOOSE i \in hits :
                        \A k \in hits \ {i} : Prefer(router[i].segs, router[k].segs)
         IN Some([params |-> MatchSegs(router[best].segs, u).params,
                  value |-> router[best].value])

\* Router::insert(path, value): [ok, err, router].
RouterInsert(router, path, value) ==
    LET pr == ParseRoute(path) IN
    IF ~pr.ok THEN [ok |-> FALSE, err |-> pr.err, router |-> router]
    ELSE IF \E i \in DOMAIN router : Conflicts(router[i].segs, pr.segs)
         THEN [ok |-> FALSE, err |-> "Conflict", router |-> router]
    ELSE [ok |-> TRUE, err |-> "",
          router |-> Append(router, [path |-> path, segs |-> pr.segs, value |-> value])]

(***************************************************************************)
(* regex::Regex as MatchEntry uses it.  The patterns of the model are an   *)
(* optional ^, then literal characters and groups ( ... ) of literal       *)
(* characters, each possibly followed by ?, then an optional $.            *)
(* Regex::captures searches the text for the leftmost match.               *)
(***************************************************************************)
Item(body, grp, opt) == [body |-> body, grp |-> grp, opt |-> opt]

BadRegex == [ok |-> FALSE, items |-> <<>>]

ConsItem(it, r) == IF r.ok THEN [r EXCEPT !.items = <<it>> \o r.items] ELSE r

\* Index of the first ")" of p at or after i; 0 when there is none.
RECURSIVE FindParen(_, _)
FindParen(p, i) ==
    IF i > Len(p) THEN 0
    ELSE IF p[i] = ")" THEN i
    ELSE IF p[i] \in {"(", "?", "^", "$"} THEN 0
    ELSE FindParen(p, i + 1)

RECURSIVE RegexItems(_, _)
RegexItems(p, i) ==
    IF i > Len(p) THEN [ok |-> TRUE, items |-> <<>>]
    ELSE IF p[i] \in {")", "?", "^", "$"} THEN BadRegex
    ELSE IF p[i] = "(" THEN
        LET j == FindParen(p, i + 1) IN
        IF j = 0 THEN BadRegex
        ELSE LET opt == j < Len(p) /\ p[j + 1] = "?" IN
             ConsItem(Item(SubSeq(p, i + 1, j - 1), TRUE, opt),
                      RegexItems(p, IF opt THEN j + 2 ELSE j + 1))
    ELSE LET opt == i < Len(p) /\ p[i + 1] = "?" IN
         ConsItem(Item(<<p[i]>>, FALSE, opt),
                  RegexItems(p, IF opt THEN i + 2 ELSE i + 1))

\* Regex::new(pattern): [ok, anchS, anchE, items].
RegexNew(p) ==
    LET anchS == p # <<>> /\ Head(p) = "^"
        p1 == IF anchS THEN Tail(p) ELSE p
        anchE == p1 # <<>> /\ p1[Len(p1)] = "$"
        p2 == IF anchE THEN SubSeq(p1, 1, Len(p1) - 1) ELSE p1
        r == RegexItems(p2, 1)
    IN [ok |-> r.ok, anchS |-> anchS, anchE |-> anchE, items |-> r.items]

ReFail == [ok |-> FALSE, end |-> 0, caps |-> <<>>]

ConsCap(it, c, r) == IF it.grp THEN [r EXCEPT !.caps = <<c>> \o r.caps] ELSE r

\* Match the items at position pos of u, greedy first: [ok, end, caps], where
\* caps holds, per group, Some(text) or None for a group that took no part.
RECURSIVE ReMatchAt(_, _, _, _)
ReMatchAt(items, u, pos, anchE) ==
    IF items = <<>>
    THEN [ok |-> (~anchE \/ pos > Len(u)), end |-> pos, caps |-> <<>>]
    ELSE LET it == Head(items)
             take == StartsWith(Drop(u, pos - 1), it.body)
             r1 == IF take THEN ReMatchAt(Tail(items), u, pos + Len(it.body), anchE)
                   ELSE ReFail
             r2 == IF it.opt THEN ReMatchAt(Tail(items), u, pos, anchE) ELSE ReFail
         IN IF r1.ok THEN ConsCap(it, Some(it.body), r1)
            ELSE IF r2.ok THEN ConsCap(it, None, r2)
            ELSE ReFail

\* Regex::captures(text): Some(groups), group 0 first, or None.
RegexCaptures(re, u) ==
    LET starts == IF re.anchS THEN {1} ELSE 1..(Len(u) + 1)
        hits == {s \in starts : ReMatchAt(re.items, u, s, re.anchE).ok}
    IN IF hits = {} THEN None
       ELSE LET s == CHOOSE x \in hits : \A y \in hits : x <= y
                m == ReMatchAt(re.items, u, s, re.anchE)
            IN Some(<<Some(SubSeq(u, s, m.end - 1))>> \o m.caps)

(***************************************************************************)
(* core/plugin.rs: RouteParams.                                            *)
(***************************************************************************)
\* RouteParams::new_caps: the groups that took part, in order.
RECURSIVE new_caps(_)
new_caps(caps) ==
    IF caps = <<>> THEN <<>>
    ELSE (IF IsSome(Head(caps)) THEN <<Unwrap(Head(caps))>> ELSE <<>>)
         \o new_caps(Tail(caps))

\* RouteParams::new_params: the values of the bound parameters, in order.
new_params(params) == [i \in DOMAIN params |-> params[i][2]]

\* RouteParams::get(idx), idx counted from 0.
RouteParamsGet(rp, idx) == IF idx + 1 \in DOMAIN rp THEN Some(rp[idx + 1]) ELSE None


(***************************************************************************)
(* Plugin construction (plugins/mod.rs, plugins/echo, plugins/cms_rate).   *)
(* A YAML value is a record; a field the schema requires and the record    *)
(* lacks is a deserialization error.  A plugin entry of the configuration  *)
(* is [name, config : Option(YAML)].                                       *)
(***************************************************************************)
ECHO_PLUGIN_NAME == "echo"
CMS_RATE_PLUGIN_NAME == "cms_rate"

\* PLUGIN_BUILDER_REGISTRY: the names that have a constructor.
PLUGIN_BUILDER_REGISTRY == {ECHO_PLUGIN_NAME, CMS_RATE_PLUGIN_NAME}

PluginOk(pl) == [ok |-> TRUE, plugin |-> pl, err |-> ""]
PluginErr(e) == [ok |-> FALSE, plugin |-> [kind |-> "none"], err |-> e]

\* str::to_lowercase on the header names of the model.
to_lowercase(k) ==
    CASE k = "Content-Type" -> "content-type"
      [] k = "Content-Length" -> "content-length"
      [] k = "X-Tag" -> "x-tag"
      [] OTHER -> k

\* StatusCode::from_u16
StatusCodeValid(n) == 100 <= n /\ n < 1000

\* create_echo_plugin(cfg)
create_echo_plugin(cfg) ==
    IF ~IsSome(cfg) THEN PluginErr("LackPluginConfig")
    ELSE LET y == Unwrap(cfg) IN
         IF "body" \notin DOMAIN y THEN PluginErr("YamlErr")
         ELSE LET code == IF "status_code" \in DOMAIN y THEN y.status_code ELSE 200
                  hs == IF "headers" \in DOMAIN y
                        THEN Some([i \in DOMAIN y.headers |->
                                     <<to_lowercase(y.headers[i][1]), y.headers[i][2]>>])
                        ELSE None
              IN IF ~StatusCodeValid(code) THEN PluginErr("SpecificErr")
                 ELSE PluginOk([kind |-> ECHO_PLUGIN_NAME, body |-> y.body,
                                status_code |-> code, headers |-> hs])

\* create_cms_rate_limiter(config); id names the Rate the instance owns.
create_cms_rate_limiter(cfg, id) ==
    IF ~IsSome(cfg) THEN PluginErr("LackPluginConfig")
    ELSE LET y == Unwrap(cfg) IN
         IF ~({"total", "interval"} \subseteq DOMAIN y) THEN PluginErr("YamlErr")
         ELSE IF y.total < 1 \/ y.interval < 1 THEN PluginErr("ValidateErr")
         ELSE PluginOk([kind |-> CMS_RATE_PLUGIN_NAME, total |-> y.total,
                        interval |-> y.interval, r |-> id])

\* create_plugin_builder without the registry lookup: every name that is not
\* echo's is given to the cms_rate builder.
create_plugin_builder_NoLookup(name, cfg, id) ==
    IF name = ECHO_PLUGIN_NAME THEN create_echo_plugin(cfg)
    ELSE create_cms_rate_limiter(cfg, id)

\* create_plugin_builder(name, cfg)
create_plugin_builder(name, cfg, id) ==
    IF name \notin PLUGIN_BUILDER_REGISTRY THEN PluginErr("UnknownPlugin")
    ELSE IF name = ECHO_PLUGIN_NAME THEN create_echo_plugin(cfg)
    ELSE create_cms_rate_limiter(cfg, id)

\* The loop of build_plugin_list over the entries from i on.
RECURSIVE BuildPluginsFrom(_, _, _)
BuildPluginsFrom(entries, i, owner) ==
    IF i > Len(entries) THEN [ok |-> TRUE, plugins |-> <<>>, err |-> "", name |-> ""]
    ELSE LET b == create_plugin_builder(entries[i].name, entries[i].config,
                                        <<owner[1], owner[2], i>>) IN
         IF ~b.ok
         THEN [ok |-> FALSE, plugins |-> <<>>, err |-> b.err, name |-> entries[i].name]
         ELSE LET rest == BuildPluginsFrom(entries, i + 1, owner) IN
              IF rest.ok THEN [rest EXCEPT !.plugins = <<b.plugin>> \o rest.plugins]
              ELSE rest

\* build_plugin_list(cfg): cfg is Option(sequence of entries); the error, if
\* any, is BuilderError::PluginBuild{source: err, name}.
build_plugin_list(cfg, owner) ==
    IF IsSome(cfg) THEN BuildPluginsFrom(Unwrap(cfg), 1, owner)
    ELSE [ok |-> TRUE, plugins |-> <<>>, err |-> "", name |-> ""]

\* Pipeline::new; arc names the allocation (Arc<Pipeline>) of one route.
PipelineNew(plugins, cluster, arc) ==
    [plugins |-> plugins, cluster |-> cluster, arc |-> arc]

\* build_pipleline(cfg, cluster)
build_pipleline(cfg, cluster, arc) ==
    LET b == build_plugin_list(cfg, arc) IN
    [ok |-> b.ok, err |-> b.err, name |-> b.name,
     ppl |-> PipelineNew(b.plugins, cluster, arc)]

(***************************************************************************)
(* builder/mod.rs and proxy/process.rs: the route matcher.                 *)
(***************************************************************************)
\* revise_prefix(prefix)
revise_prefix(prefix) ==
    IF EndsWith(prefix, <<"*">>)
    THEN ReplaceAll(prefix, "*", REST)
    ELSE prefix \o REST

\* MatchEntry::new()
MatchEntryNew == [non_reg_uri |-> RouterNew, regex_uris |-> <<>>]

\* MatchEntry::insert_route(path, ppl): [ok, err, m].
insert_route(m, path, ppl) ==
    IF IsSome(RouterAt(m.non_reg_uri, path))
    THEN [ok |-> TRUE, err |-> "", m |-> m]
    ELSE LET r == RouterInsert(m.non_reg_uri, path, ppl) IN
         [ok |-> r.ok, err |-> r.err, m |-> [m EXCEPT !.non_reg_uri = r.router]]

\* MatchEntry::add_regex_route(re, ppl)
add_regex_route(m, re, ppl) ==
    [m EXCEPT !.regex_uris = Append(@, [re |-> re, ppl |-> ppl])]

\* The scan of regex_uris from index i on in match_request.
RECURSIVE RegexScan(_, _, _)
RegexScan(res, i, uri) ==
    IF i > Len(res) THEN None
    ELSE LET caps == RegexCaptures(res[i].re, uri) IN
         IF IsSome(caps)
         THEN Some([params |-> new_caps(Unwrap(caps)), ppl |-> res[i].ppl])
         ELSE RegexScan(res, i + 1, uri)

\* match_request with the regex routes consulted before the path router.
match_request_RegexFirst(m, uri) ==
    LET re == RegexScan(m.regex_uris, 1, uri)
        hit == RouterAt(m.non_reg_uri, uri)
    IN IF IsSome(re) THEN re
       ELSE IF IsSome(hit)
       THEN Some([params |-> new_params(Unwrap(hit).params), ppl |-> Unwrap(hit).value])
       ELSE None

\* MatchEntry::match_request, on the URI path of the session's request.
match_request(m, uri) ==
    LET hit == RouterAt(m.non_reg_uri, uri) IN
    IF IsSome(hit)
    THEN Some([params |-> new_params(Unwrap(hit).params), ppl |-> Unwrap(hit).value])
    ELSE RegexScan(m.regex_uris, 1, uri)

\* One iteration of init_routes' loop, for route number k of service s:
\* [out, err, m], out one of "ok", "err" (the function returns Err) and
\* "panic" (unimplemented!).
init_route(m, one_route, s, k) ==
    LET b == build_pipleline(one_route.plugins, one_route.cluster, <<s, k>>) IN
    IF ~b.ok THEN [out |-> "err", err |-> <<"PluginBuild", b.err>>, m |-> m]
    ELSE IF ~IsSome(one_route.matcher.uri)
         THEN [out |-> "panic", err |-> <<"unimplemented", "">>, m |-> m]
    ELSE LET uri == Unwrap(one_route.matcher.uri) IN
         IF uri.kind = "Regexp" THEN
             LET re == RegexNew(uri.s) IN
             IF ~re.ok THEN [out |-> "err", err |-> <<"Regexp", "">>, m |-> m]
             ELSE [out |-> "ok", err |-> <<"", "">>, m |-> add_regex_route(m, re, b.ppl)]
         ELSE LET path == IF uri.kind = "Prefix" THEN revise_prefix(uri.s) ELSE uri.s
                  r == insert_route(m, path, b.ppl)
              IN IF r.ok THEN [out |-> "ok", err |-> <<"", "">>, m |-> r.m]
                 ELSE [out |-> "err", err |-> <<"InsertRoute", r.err>>, m |-> m]


(***************************************************************************)
(* clusters/mod.rs, clusters/discovery/mod.rs, core/lb.rs.                 *)
(* A load balancer is [policy, discovery, backends]; backends is the       *)
(* ordered set the selector was last built from.                           *)
(***************************************************************************)
\* init_discovery_providers(cfg): the resolver kinds that got a resolver.
init_discovery_providers(cfg) ==
    {cfg[i].resolver_type : i \in {k \in DOMAIN cfg : cfg[k].resolver_type = "DNS"}}

\* StaticDiscovery::new(cfg): [ok, err, backends].
StaticDiscoveryNew(cfg) ==
    IF ~IsSome(cfg) THEN [ok |-> FALSE, err |-> "LackConfig", backends |-> <<>>]
    ELSE IF "endpoints" \notin DOMAIN Unwrap(cfg)
         THEN [ok |-> FALSE, err |-> "StaticConfig", backends |-> <<>>]
    ELSE [ok |-> TRUE, err |-> "", backends |-> Unwrap(cfg).endpoints]

\* The BTreeSet of backends built from a sequence of addresses: no
\* duplicates (a later duplicate is dropped), weight 1.
RECURSIVE Dedup(_)
Dedup(s) ==
    IF s = <<>> THEN <<>>
    ELSE LET r == Dedup(SubSeq(s, 1, Len(s) - 1)) IN
         IF s[Len(s)] \in Range(r) THEN r ELSE Append(r, s[Len(s)])

Backend(addr) == [addr |-> addr, weight |-> 1]

\* try_from_iter without its update: the selector holds no backend.
LbFromStatic_Unfilled(backends) ==
    [policy |-> "Random", discovery |-> "static", backends |-> <<>>]

\* LoadBalancer::<Random>::try_from_iter(discovery): built and updated once.
LbFromStatic(backends) ==
    LET d == Dedup(backends) IN
    [policy |-> "Random", discovery |-> "static",
     backends |-> [i \in DOMAIN d |-> Backend(d[i])]]

\* LoadBalancer::<Random>::from_backends(Backends::new(DnsDiscovery)): the
\* selector is built from the backends known so far, which are none until
\* an update of the load balancer runs discover().
LbFromDns(host, port) ==
    [policy |-> "Random", discovery |-> "dns", name |-> host, port |-> port,
     backends |-> <<>>]

\* Resolver::lookup_ip(name), for the resolver the process is given: one
\* host with two addresses, one with none, and every other name failing to
\* resolve (ResolveIp).
lookup_ip(name) ==
    IF name = "svc.local" THEN [ok |-> TRUE, err |-> "", ips |-> <<"10.0.0.1", "10.0.0.2">>]
    ELSE IF name = "none.local" THEN [ok |-> TRUE, err |-> "", ips |-> <<>>]
    ELSE [ok |-> FALSE, err |-> "ResolveIp", ips |-> <<>>]

\* DnsDiscovery::discover(): [out, backends].  The lookup's result is
\* unwrapped, so out is "panic" when the lookup failed; otherwise "ok" with
\* the backends of the addresses looked up, each with the configured port
\* and weight 1.
DnsDiscover(name, port) ==
    LET l == lookup_ip(name) IN
    IF ~l.ok THEN [out |-> "panic", backends |-> <<>>]
    ELSE [out |-> "ok", backends |-> [i \in DOMAIN l.ips |-> Backend(<<l.ips[i], port>>)]]

\* The loop of ClusterManager::new from index i on: [out, err, clusters],
\* out one of "ok", "err" and "panic" (unwrap of an absent config).
RECURSIVE ClusterLoop(_, _, _, _)
ClusterLoop(cfgs, i, resolvers, clusters) ==
    IF i > Len(cfgs) THEN [out |-> "ok", err |-> "", clusters |-> clusters]
    ELSE LET cfg == cfgs[i] IN
         IF cfg.resolver = "DNS" THEN
             IF "DNS" \notin resolvers
             THEN [out |-> "err", err |-> "UnknownResolver", clusters |-> clusters]
             ELSE IF ~IsSome(cfg.config)
             THEN [out |-> "panic", err |-> "unwrap", clusters |-> clusters]
             ELSE IF ~({"host", "port"} \subseteq DOMAIN Unwrap(cfg.config))
             THEN [out |-> "err", err |-> "DiscoveryConfig", clusters |-> clusters]
             ELSE ClusterLoop(cfgs, i + 1, resolvers,
                      (cfg.name :> LbFromDns(Unwrap(cfg.config).host, Unwrap(cfg.config).port))
                          @@ clusters)
         ELSE LET d == StaticDiscoveryNew(cfg.config) IN
              IF ~d.ok THEN [out |-> "err", err |-> d.err, clusters |-> clusters]
              ELSE ClusterLoop(cfgs, i + 1, resolvers,
                       (cfg.name :> LbFromStatic(d.backends)) @@ clusters)

\* ClusterManager::new(cfgs, resolvers)
ClusterManagerNew(cfgs, resolvers) == ClusterLoop(cfgs, 1, resolvers, <<>>)

\* ClusterManager::get_cluster(name)
get_cluster(clusters, name) ==
    IF name \in DOMAIN clusters THEN Some(clusters[name]) ELSE None

\* LB::select_backend: LoadBalancer::select(b"", 256) under the Random
\* policy; rnd is the random draw.
select_backend(lb, rnd) ==
    IF Len(lb.backends) = 0 THEN None
    ELSE Some(lb.backends[(rnd % Len(lb.backends)) + 1])

\* pingora::Error values: [etype, msg, context].
Error(etype, msg, context) == [etype |-> etype, msg |-> msg, context |-> context]

\* upstream_peer with an unknown cluster name reported like an unset one.
upstream_peer_NoRouteAsNoCluster(clusters, cluster, rnd) ==
    LET lb == IF IsSome(cluster) THEN get_cluster(clusters, Unwrap(cluster)) ELSE None IN
    IF ~IsSome(lb)
    THEN [ok |-> FALSE, err |-> Error("Custom", "no cluster", <<>>), peer |-> None]
    ELSE LET backend == select_backend(Unwrap(lb), rnd) IN
         IF ~IsSome(backend)
         THEN [ok |-> FALSE,
               err |-> Error("Custom", "no backend", <<"cluster: ", Unwrap(cluster)>>),
               peer |-> None]
         ELSE [ok |-> TRUE, err |-> Error("", "", <<>>),
               peer |-> Some([backend |-> Unwrap(backend), tls |-> FALSE,
                              sni |-> "a.b.c"])]

\* Proxy::upstream_peer, on the context's cluster: [ok, err, peer].
upstream_peer(clusters, cluster, rnd) ==
    IF ~IsSome(cluster)
    THEN [ok |-> FALSE, err |-> Error("Custom", "no cluster", <<>>), peer |-> None]
    ELSE LET lb == get_cluster(clusters, Unwrap(cluster)) IN
         IF ~IsSome(lb)
         THEN [ok |-> FALSE, err |-> Error("ConnectNoRoute", "", <<>>), peer |-> None]
         ELSE LET backend == select_backend(Unwrap(lb), rnd) IN
              IF ~IsSome(backend)
              THEN [ok |-> FALSE,
                    err |-> Error("Custom", "no backend", <<"cluster: ", Unwrap(cluster)>>),
                    peer |-> None]
              ELSE [ok |-> TRUE, err |-> Error("", "", <<>>),
                    peer |-> Some([backend |-> Unwrap(backend), tls |-> FALSE,
                                   sni |-> "a.b.c"])]

(***************************************************************************)
(* utils/mod.rs: send_response, over the session's response writer.        *)
(* The session is [uri, hdrs, bodies, wlog]: the request's URI path, the   *)
(* response headers written, the body writes made, and the kinds of the    *)
(* writes in the order they reached the client.  io names the write that   *)
(* fails, if any ("ok", "hdr_fail", "body_fail").                          *)
(***************************************************************************)
IoOutcomes == {"ok", "hdr_fail", "body_fail"}

\* usize to decimal text, as the header value is rendered.
RECURSIVE Digits(_)
Digits(n) ==
    LET d == <<"0", "1", "2", "3", "4", "5", "6", "7", "8", "9">>[(n % 10) + 1] IN
    IF n < 10 THEN <<d>> ELSE Append(Digits(n \div 10), d)

TEXT_PLAIN == <<"t", "e", "x", "t", "/", "p", "l", "a", "i", "n">>

SessionNew(uri) == [uri |-> uri, hdrs |-> <<>>, bodies |-> <<>>, wlog |-> <<>>]

\* Session::write_response_header(resp, false)
write_response_header(session, resp, io) ==
    IF io = "hdr_fail" THEN [ok |-> FALSE, session |-> session]
    ELSE [ok |-> TRUE, session |-> [session EXCEPT !.hdrs = Append(@, resp),
                                                   !.wlog = Append(@, "header")]]

\* Session::write_response_body(body, end_of_stream)
write_response_body(session, body, eos, io) ==
    IF io = "body_fail" THEN [ok |-> FALSE, session |-> session]
    ELSE [ok |-> TRUE,
          session |-> [session EXCEPT !.bodies = Append(@, [data |-> body, eos |-> eos]),
                                      !.wlog = Append(@, "body")]]

\* send_response that goes on to the body when the header write failed.
send_response_BodyAnyway(session, status, content_type, body, headers, io) ==
    LET cl == IF IsSome(body) THEN Len(Unwrap(body)) ELSE 0
        h1 == <<<<"content-length", Digits(cl)>>>>
        h2 == IF IsSome(headers) THEN h1 \o Unwrap(headers) ELSE h1
        h3 == Append(h2, <<"content-type",
                           IF IsSome(content_type) THEN Unwrap(content_type)
                           ELSE TEXT_PLAIN>>)
        w == write_response_header(session, [status |-> status, headers |-> h3], io)
        b == write_response_body(w.session, body, TRUE, io)
    IN [ok |-> w.ok /\ b.ok, session |-> b.session]

\* send_response(session, status, content_type, body, headers): [ok, session].
send_response(session, status, content_type, body, headers, io) ==
    LET cl == IF IsSome(body) THEN Len(Unwrap(body)) ELSE 0
        h1 == <<<<"content-length", Digits(cl)>>>>
        h2 == IF IsSome(headers) THEN h1 \o Unwrap(headers) ELSE h1
        h3 == Append(h2, <<"content-type",
                           IF IsSome(content_type) THEN Unwrap(content_type)
                           ELSE TEXT_PLAIN>>)
        w == write_response_header(session, [status |-> status, headers |-> h3], io)
    IN IF ~w.ok THEN w
       ELSE write_response_body(w.session, body, TRUE, io)


(***************************************************************************)
(* The plugins' filters (core/plugin.rs, plugins/echo, plugins/cms_rate).  *)
(* A handler runs on st = [session, rate, trace, out, err]: out is         *)
(* "continue" (Ok(false) / Ok(())), "stop" (Ok(true)) or "err" (Err(err)); *)
(* trace lists the calls made for the request, in order, each with what it *)
(* returned.                                                               *)
(***************************************************************************)
Ev(ev, tier, idx, ret) == [ev |-> ev, tier |-> tier, idx |-> idx, ret |-> ret]

NoError == Error("", "", <<>>)
WriteError == Error("WriteError", "", <<>>)

StatusNotFound == 404
StatusTooManyRequests == 429
StatusInternalServerError == 500

\* Rate::observe that loses the event.
RateObserve_Lost(r, key) == r

\* Rate::observe(key, 1): the count of the current interval after the event.
\* The estimator is taken to count each key exactly: two paths never share
\* all their counters.
RateCount(r, key) == IF key \in DOMAIN r THEN r[key] ELSE 0
RateObserve(r, key) == (key :> (RateCount(r, key) + 1)) @@ r

\* The result of a filter that ends with send_response(..)?; Ok(true).
AfterSend(st, w) ==
    IF w.ok THEN [st EXCEPT !.session = w.session, !.out = "stop"]
    ELSE [st EXCEPT !.session = w.session, !.out = "err", !.err = WriteError]

\* EchoPlugin::request_filter ending with Ok(false) after the response.
echo_request_filter_NoStop(pl, st, io) ==
    LET a == AfterSend(st, send_response(st.session, pl.status_code, None, Some(pl.body),
                                         pl.headers, io))
    IN IF a.out = "stop" THEN [a EXCEPT !.out = "continue"] ELSE a

\* EchoPlugin::request_filter
echo_request_filter(pl, st, io) ==
    AfterSend(st, send_response(st.session, pl.status_code, None, Some(pl.body),
                                pl.headers, io))

\* cms_rate's request_filter with the limit compared by >= instead of >.
cms_rate_request_filter_OffByOne(pl, st, io) ==
    LET key == <<pl.r, st.session.uri>>
        nc == RateCount(st.rate, key) + 1
        st1 == [st EXCEPT !.rate = RateObserve(st.rate, key)]
    IN IF nc >= pl.total
       THEN AfterSend(st1, send_response(st1.session, StatusTooManyRequests,
                                         None, None, None, io))
       ELSE [st1 EXCEPT !.out = "continue"]

\* PerRoutePlugin::request_filter (cms_rate)
cms_rate_request_filter(pl, st, io) ==
    LET key == <<pl.r, st.session.uri>>
        nc == RateCount(st.rate, key) + 1
        st1 == [st EXCEPT !.rate = RateObserve(st.rate, key)]
    IN IF nc > pl.total
       THEN AfterSend(st1, send_response(st1.session, StatusTooManyRequests,
                                         None, None, None, io))
       ELSE [st1 EXCEPT !.out = "continue"]

\* Plugin::request_filter, by the kind of the plugin.
plugin_request_filter(pl, st, io) ==
    IF pl.kind = ECHO_PLUGIN_NAME THEN echo_request_filter(pl, st, io)
    ELSE cms_rate_request_filter(pl, st, io)

\* The other four phases: neither plugin overrides the trait's default,
\* which does nothing and returns Ok(()).
plugin_default_filter(pl, st) == [st EXCEPT !.out = "continue"]

\* RunRequestFilters with the test of the plugin's answer left out: only an
\* error ends the loop.
RECURSIVE RunRequestFiltersNoStop(_, _, _, _, _)
RunRequestFiltersNoStop(plugins, i, tier, st, io) ==
    IF i > Len(plugins) THEN [st EXCEPT !.out = "continue"]
    ELSE LET ret == plugin_request_filter(plugins[i], st, io)
             r == [ret EXCEPT !.trace = Append(@, Ev("request_filter", tier, i, ret.out))]
         IN IF r.out # "err"
            THEN RunRequestFiltersNoStop(plugins, i + 1, tier, r, io)
            ELSE r

\* RunRequestFilters with the `?` left out: a plugin's error is dropped and
\* the loop goes on to the next plugin.
RECURSIVE RunRequestFiltersPastErr(_, _, _, _, _)
RunRequestFiltersPastErr(plugins, i, tier, st, io) ==
    IF i > Len(plugins) THEN [st EXCEPT !.out = "continue"]
    ELSE LET ret == plugin_request_filter(plugins[i], st, io)
             r == [ret EXCEPT !.trace = Append(@, Ev("request_filter", tier, i, ret.out))]
         IN IF r.out # "stop"
            THEN RunRequestFiltersPastErr(plugins, i + 1, tier, r, io)
            ELSE r

\* for plugin in plugins { if plugin.request_filter(..).await? { return Ok(true) } }
RECURSIVE RunRequestFilters(_, _, _, _, _)
RunRequestFilters(plugins, i, tier, st, io) ==
    IF i > Len(plugins) THEN [st EXCEPT !.out = "continue"]
    ELSE LET ret == plugin_request_filter(plugins[i], st, io)
             r == [ret EXCEPT !.trace = Append(@, Ev("request_filter", tier, i, ret.out))]
         IN IF r.out = "continue"
            THEN RunRequestFilters(plugins, i + 1, tier, r, io)
            ELSE r

\* for plugin in plugins { plugin.<phase>(..).await?; }
RECURSIVE RunFilters(_, _, _, _, _)
RunFilters(plugins, i, tier, phase, st) ==
    IF i > Len(plugins) THEN [st EXCEPT !.out = "continue"]
    ELSE LET ret == plugin_default_filter(plugins[i], st)
             r == [ret EXCEPT !.trace = Append(@, Ev(phase, tier, i, ret.out))]
         IN IF r.out = "continue"
            THEN RunFilters(plugins, i + 1, tier, phase, r)
            ELSE r

(***************************************************************************)
(* proxy/process.rs: impl ProxyHttp for Proxy.  The context is             *)
(* [plugins, cluster, plugin_ctx]; a handler returns the state st and the  *)
(* context it leaves.                                                      *)
(***************************************************************************)
NOT_FOUND == <<"n", "o", "t", " ", "f", "o", "u", "n", "d">>

\* Proxy::new_ctx: ProxyCtx::default()
new_ctx == [plugins |-> <<>>, cluster |-> None, plugin_ctx |-> [route_params |-> None]]

\* Proxy::new(matcher, cluster_manager, plugins)
ProxyNew(m, cluster_manager, plugins) ==
    [plugins |-> plugins, matcher |-> m, cluster_manager |-> cluster_manager]

\* request_filter_route with the `return Ok(true)` after the 404 left out.
request_filter_route_NoStop(proxy, g, ctx, io) ==
    LET g1 == [g EXCEPT !.trace = Append(@, Ev("match_request", "engine", 0, ""))]
        hit == match_request(proxy.matcher, g.session.uri)
    IN IF IsSome(hit) THEN
           LET ppl == Unwrap(hit).ppl
               ctx1 == [plugins |-> ppl.plugins,
                        cluster |-> Some(ppl.cluster),
                        plugin_ctx |-> [route_params |-> Some(Unwrap(hit).params)]]
           IN [st |-> RunRequestFilters(ctx1.plugins, 1, "route", g1, io), ctx |-> ctx1]
       ELSE LET a == AfterSend([g1 EXCEPT !.trace = Append(@, Ev("send_404", "engine", 0, ""))],
                               send_response(g1.session, StatusNotFound, None,
                                             Some(NOT_FOUND), None, io))
            IN [st |-> IF a.out = "stop" THEN [a EXCEPT !.out = "continue"] ELSE a,
                ctx |-> ctx]

\* request_filter_route with the matched pipeline's plugins run but not
\* bound into the context.
request_filter_route_Unbound(proxy, g, ctx, io) ==
    LET g1 == [g EXCEPT !.trace = Append(@, Ev("match_request", "engine", 0, ""))]
        hit == match_request(proxy.matcher, g.session.uri)
    IN IF IsSome(hit) THEN
           LET ppl == Unwrap(hit).ppl
               ctx1 == [ctx EXCEPT !.cluster = Some(ppl.cluster)]
           IN [st |-> RunRequestFilters(ppl.plugins, 1, "route", g1, io), ctx |-> ctx1]
       ELSE [st |-> AfterSend([g1 EXCEPT !.trace = Append(@, Ev("send_404", "engine", 0, ""))],
                              send_response(g1.session, StatusNotFound, None,
                                            Some(NOT_FOUND), None, io)),
             ctx |-> ctx]

\* request_filter_route with the matched pipeline's cluster left out of the
\* context.
request_filter_route_NoCluster(proxy, g, ctx, io) ==
    LET g1 == [g EXCEPT !.trace = Append(@, Ev("match_request", "engine", 0, ""))]
        hit == match_request(proxy.matcher, g.session.uri)
    IN IF IsSome(hit) THEN
           LET ppl == Unwrap(hit).ppl
               ctx1 == [plugins |-> ppl.plugins,
                        cluster |-> ctx.cluster,
                        plugin_ctx |-> [route_params |-> Some(Unwrap(hit).params)]]
           IN [st |-> RunRequestFilters(ctx1.plugins, 1, "route", g1, io), ctx |-> ctx1]
       ELSE [st |-> AfterSend([g1 EXCEPT !.trace = Append(@, Ev("send_404", "engine", 0, ""))],
                              send_response(g1.session, StatusNotFound, None,
                                            Some(NOT_FOUND), None, io)),
             ctx |-> ctx]

\* The per-route half of Proxy::request_filter, after the global plugins
\* all returned Ok(false).
request_filter_route(proxy, g, ctx, io) ==
    LET g1 == [g EXCEPT !.trace = Append(@, Ev("match_request", "engine", 0, ""))]
        hit == match_request(proxy.matcher, g.session.uri)
    IN IF IsSome(hit) THEN
           LET ppl == Unwrap(hit).ppl
               ctx1 == [plugins |-> ppl.plugins,
                        cluster |-> Some(ppl.cluster),
                        plugin_ctx |-> [route_params |-> Some(Unwrap(hit).params)]]
           IN [st |-> RunRequestFilters(ctx1.plugins, 1, "route", g1, io), ctx |-> ctx1]
       ELSE [st |-> AfterSend([g1 EXCEPT !.trace = Append(@, Ev("send_404", "engine", 0, ""))],
                              send_response(g1.session, StatusNotFound, None,
                                            Some(NOT_FOUND), None, io)),
             ctx |-> ctx]

\* request_filter with the route matched before the global plugins run.
request_filter_MatchFirst(proxy, st, ctx, io) ==
    LET st1 == [st EXCEPT !.trace = Append(@, Ev("match_request", "engine", 0, ""))]
        hit == match_request(proxy.matcher, st.session.uri)
        ctx1 == IF IsSome(hit)
                THEN [plugins |-> Unwrap(hit).ppl.plugins,
                      cluster |-> Some(Unwrap(hit).ppl.cluster),
                      plugin_ctx |-> [route_params |-> Some(Unwrap(hit).params)]]
                ELSE ctx
        g == RunRequestFilters(proxy.plugins, 1, "global", st1, io)
    IN IF g.out # "continue" THEN [st |-> g, ctx |-> ctx1]
       ELSE [st |-> RunRequestFilters(ctx1.plugins, 1, "route", g, io), ctx |-> ctx1]

\* Proxy::request_filter
request_filter(proxy, st, ctx, io) ==
    LET g == RunRequestFilters(proxy.plugins, 1, "global", st, io) IN
    IF g.out # "continue" THEN [st |-> g, ctx |-> ctx]
    ELSE request_filter_route(proxy, g, ctx, io)

\* phase_filter with the two tiers in the other order.
phase_filter_RouteFirst(proxy, phase, st, ctx) ==
    LET g == RunFilters(ctx.plugins, 1, "route", phase, st) IN
    IF g.out # "continue" THEN g
    ELSE RunFilters(proxy.plugins, 1, "global", phase, g)

\* Proxy::request_body_filter, upstream_request_filter, response_filter and
\* response_body_filter: the global plugins, then the context's plugins.
phase_filter(proxy, phase, st, ctx) ==
    LET g == RunFilters(proxy.plugins, 1, "global", phase, st) IN
    IF g.out # "continue" THEN g
    ELSE RunFilters(ctx.plugins, 1, "route", phase, g)

\* The level filters env_logger can be initialised with from the
\* environment (main.rs), the default when RUST_LOG is unset, and
\* log_enabled!(at) under a filter.
LogLevels == {"off", "error", "info"}
DefaultLogLevel == "error"
log_enabled(level, at) ==
    \/ level = "info" /\ at \in {"info", "error"}
    \/ level = "error" /\ at = "error"

\* Proxy::logging without the test of the Info level.
logging_Always(session, e, level) ==
    <<[level |-> "info",
       status |-> IF Len(session.hdrs) > 0 THEN session.hdrs[Len(session.hdrs)].status
                  ELSE StatusInternalServerError,
       uri |-> session.uri]>>
    \o (IF IsSome(e) /\ log_enabled(level, "error")
        THEN <<[level |-> "error", error |-> Unwrap(e)]>> ELSE <<>>)

\* Proxy::logging: the records written to the log, the access-log line
\* first, then the error when there is one.
logging(session, e, level) ==
    (IF log_enabled(level, "info")
     THEN <<[level |-> "info",
             status |-> IF Len(session.hdrs) > 0 THEN session.hdrs[Len(session.hdrs)].status
                        ELSE StatusInternalServerError,
             uri |-> session.uri]>>
     ELSE <<>>)
    \o (IF IsSome(e) /\ log_enabled(level, "error")
        THEN <<[level |-> "error", error |-> Unwrap(e)]>> ELSE <<>>)


(***************************************************************************)
(* The configurations the model runs on (config/def.rs: Config, Service,   *)
(* Route, Matcher, StrMatch, Plugin, Cluster, DiscoveryProvider).          *)
(***************************************************************************)
PluginCfg(name, cfg) == [name |-> name, config |-> cfg]

RouteCfg(kind, str, plugins, cluster) ==
    [matcher |-> [uri |-> Some([kind |-> kind, s |-> str])],
     plugins |-> plugins, cluster |-> cluster]

ClusterCfg(name, resolver, cfg) ==
    [name |-> name, resolver |-> resolver, lb_policy |-> "round_robin", config |-> cfg]

ServiceCfg(plugins, routes, clusters) ==
    [plugins |-> plugins, routes |-> routes, clusters |-> clusters]

ConfigOf(services) ==
    [services |-> services, discovery_providers |-> <<[resolver_type |-> "DNS"]>>]

P_rate1 == PluginCfg("cms_rate", Some([total |-> 1, interval |-> 1]))
P_rate2 == PluginCfg("cms_rate", Some([total |-> 2, interval |-> 1]))
P_echo == PluginCfg("echo", Some([body |-> <<"h", "i">>, status_code |-> 201]))
P_rateNull == PluginCfg("cms_rate", None)
P_rateZero == PluginCfg("cms_rate", Some([total |-> 0, interval |-> 1]))
P_rateNoTotal == PluginCfg("cms_rate", Some([interval |-> 1]))
P_echoBadCode == PluginCfg("echo", Some([body |-> <<"h", "i">>, status_code |-> 99]))
P_unknown == PluginCfg("jwt", None)

APPLICATION_JSON == <<"a", "p", "p", "l", "i", "c", "a", "t", "i", "o", "n", "/", "j", "s", "o", "n">>

\* Echo entries with a headers map and no status_code.
P_echoJson == PluginCfg("echo", Some([body |-> <<"{", "}">>,
                                      headers |-> <<<<"Content-Type", APPLICATION_JSON>>>>]))
P_echoLen == PluginCfg("echo", Some([body |-> <<"h", "i">>,
                                     headers |-> <<<<"Content-Length", <<"5">>>>>>]))

U_root == <<"/">>
U_a == <<"/", "a">>
U_as == <<"/", "a", "/">>
U_ab == <<"/", "a", "/", "b">>
U_abb == <<"/", "a", "/", "b", "b">>
U_astar == <<"/", "a", "/", "*">>
U_astarb == <<"/", "a", "/", "*", "b">>
U_b == <<"/", "b">>
U_e == <<"/", "e", "/">>
U_ex == <<"/", "e", "/", "x">>
U_n == <<"/", "n">>
U_brace == <<"/", "{", "a", "}">>
U_brace2 == <<"/", "{", "{", "a", "}", "}">>
U_ui == <<"/", "u", "/", "{", "i", "}">>
U_u7 == <<"/", "u", "/", "7">>

C_static2 == ClusterCfg("c1", "Static", Some([endpoints |-> <<"10.0.0.1:80", "10.0.0.2:80">>]))
C_static0 == ClusterCfg("c0", "Static", Some([endpoints |-> <<>>]))
C_dns == ClusterCfg("dns1", "DNS", Some([host |-> "svc.local", port |-> 80]))
C_staticNull == ClusterCfg("c1", "Static", None)
C_staticBad == ClusterCfg("c1", "Static", Some([hosts |-> <<>>]))
C_dnsBad == ClusterCfg("dns1", "DNS", Some([host |-> "svc.local"]))
C_dnsNone == ClusterCfg("dns0", "DNS", Some([host |-> "none.local", port |-> 80]))
C_dnsFail == ClusterCfg("dns0", "DNS", Some([host |-> "bad.local", port |-> 80]))

\* The routes of the services the engine is run with.
R_a == RouteCfg("Exact", U_a, Some(<<P_rate2, P_rate1>>), "c1")
R_e == RouteCfg("Prefix", U_e, Some(<<P_rate1, P_echo>>), "c1")
R_aGhost == RouteCfg("Exact", U_a, None, "ghost")
R_reE == RouteCfg("Regexp", <<"^", "/", "e">>, None, "c0")

S_main == ServiceCfg(Some(<<P_rate2, P_rate1>>), <<R_a, R_e>>, <<C_static2>>)
S_ghost == ServiceCfg(None, <<R_aGhost, R_reE>>, <<C_static2, C_static0>>)
S_echo == ServiceCfg(Some(<<P_rate1, P_echo>>), <<R_a>>, <<C_static2>>)
S_echoHeaders == ServiceCfg(None, <<RouteCfg("Prefix", U_e, Some(<<P_echoJson>>), "c1"),
                                    RouteCfg("Exact", U_a, Some(<<P_echoLen>>), "c1")>>,
                            <<C_static2>>)

\* Services the builder refuses.
S_unknownRoute == ServiceCfg(None, <<R_a, RouteCfg("Exact", U_b, Some(<<P_rate1, P_unknown>>), "c1")>>, <<C_static2>>)
S_unknownGlobal == ServiceCfg(Some(<<P_unknown>>), <<R_a>>, <<C_static2>>)
S_rateNull == ServiceCfg(Some(<<P_rate1, P_rateNull>>), <<R_a>>, <<C_static2>>)
S_rateZero == ServiceCfg(None, <<RouteCfg("Exact", U_b, Some(<<P_rateZero>>), "c1")>>, <<C_static2>>)
S_rateNoTotal == ServiceCfg(Some(<<P_rateNoTotal>>), <<R_a>>, <<C_static2>>)
S_echoBadCode == ServiceCfg(None, <<RouteCfg("Exact", U_b, Some(<<P_echoBadCode>>), "c1")>>, <<C_static2>>)
S_badRegex == ServiceCfg(None, <<RouteCfg("Regexp", <<"(">>, None, "c1")>>, <<C_static2>>)
S_badCluster == ServiceCfg(None, <<R_a>>, <<C_staticNull>>)

\* A service ClusterManager::new panics on: a DNS cluster without config.
S_dnsNoConfig == ServiceCfg(None, <<R_a>>, <<ClusterCfg("dns1", "DNS", None)>>)

ConfigUniverse ==
    {ConfigOf(<<sv>>) : sv \in {S_main, S_ghost, S_echo, S_echoHeaders, S_unknownRoute, S_unknownGlobal,
                                S_rateNull, S_rateZero, S_rateNoTotal, S_echoBadCode,
                                S_badRegex, S_badCluster}}
    \cup {ConfigOf(<<S_echo, S_rateNull>>), ConfigOf(<<S_echo, S_dnsNoConfig>>)}

\* The URI paths requests arrive with.
RequestUris == {U_a, U_ex, U_n}


(***************************************************************************)
(* main.rs: the Run command.  For each service: init_routes,               *)
(* ClusterManager::new, build_plugin_list, Proxy::new, create_service;     *)
(* then the server runs.  bpc is "init_routes", "clusters", "plugins",     *)
(* "run", "serving", "failed" (main returned app_err) or "panicked".       *)
(***************************************************************************)
NoInsert == [route |-> 0, kind |-> "", path |-> <<>>, out |-> "", before |-> MatchEntryNew]

NoProbe == [kind |-> "none"]

NewReq == [pc |-> "new", svc |-> 0, session |-> SessionNew(<<>>), ctx |-> new_ctx,
           trace |-> <<>>, rf |-> "", err |-> None, peer |-> None, log |-> <<>>,
           chunks_in |-> 0, chunks_out |-> 0, win |-> 0]

\* The model follows two requests, which may run concurrently.
ReqIds == {1, 2}

\* Where the build of service s starts: init_routes of an empty route list
\* returns the empty matcher at once.
BuildStart(c, s) == IF Len(c.services[s].routes) = 0 THEN "clusters" ELSE "init_routes"

InitWith(c) ==
    /\ config = c
    /\ bpc = BuildStart(c, 1)
    /\ si = 1
    /\ ri = 1
    /\ matcher = MatchEntryNew
    /\ last_insert = NoInsert
    /\ cur_clusters = None
    /\ svcs = <<>>
    /\ app_err = None
    /\ rate = <<>>
    /\ reqs = [r \in ReqIds |-> NewReq]
    /\ probe = NoProbe
    /\ now = 0

Init == \E c \in ConfigUniverse, l \in LogLevels : InitWith(c) /\ log_level = l

\* The path a route is inserted under (builder/mod.rs lines 45-53).
NormalizedPath(uri) == IF uri.kind = "Prefix" THEN revise_prefix(uri.s) ELSE uri.s

\* One iteration of the loop of init_routes; after the last one,
\* init_routes returns Ok(matcher).
InitRouteStep ==
    /\ bpc = "init_routes"
    /\ ri <= Len(config.services[si].routes)
    /\ LET one_route == config.services[si].routes[ri]
           r == init_route(matcher, one_route, si, ri)
           uri == one_route.matcher.uri
       IN /\ last_insert' = [route |-> ri,
                             kind |-> IF IsSome(uri) THEN Unwrap(uri).kind ELSE "",
                             path |-> IF IsSome(uri) THEN NormalizedPath(Unwrap(uri)) ELSE <<>>,
                             out |-> r.out,
                             before |-> matcher]
          /\ IF r.out = "ok"
             THEN /\ matcher' = r.m
                  /\ ri' = ri + 1
                  /\ bpc' = IF ri = Len(config.services[si].routes) THEN "clusters" ELSE bpc
                  /\ app_err' = app_err
             ELSE /\ matcher' = matcher
                  /\ ri' = ri
                  /\ bpc' = IF r.out = "panic" THEN "panicked" ELSE "failed"
                  /\ app_err' = IF r.out = "panic" THEN app_err
                                ELSE Some(<<"Builder", r.err[1], r.err[2]>>)
    /\ UNCHANGED <<config, si, cur_clusters, svcs, rate, reqs, probe, now, log_level>>

\* ClusterManager::new(clusters, &resolvers)
NewClusterManager ==
    /\ bpc = "clusters"
    /\ LET r == ClusterManagerNew(config.services[si].clusters,
                                  init_discovery_providers(config.discovery_providers))
       IN IF r.out = "ok"
          THEN /\ cur_clusters' = Some(r.clusters)
               /\ bpc' = "plugins"
               /\ app_err' = app_err
          ELSE /\ cur_clusters' = cur_clusters
               /\ bpc' = IF r.out = "panic" THEN "panicked" ELSE "failed"
               /\ app_err' = IF r.out = "panic" THEN app_err
                             ELSE Some(<<"Cluster", r.err, "">>)
    /\ UNCHANGED <<config, si, ri, matcher, last_insert, svcs, rate, reqs, probe, now,
                   log_level>>

\* build_plugin_list(plugins), Proxy::new, create_service, svcs.push; after
\* the last service, server.add_services(svcs).
BuildGlobalPlugins ==
    /\ bpc = "plugins"
    /\ LET b == build_plugin_list(config.services[si].plugins, <<si, 0>>) IN
       IF b.ok
       THEN /\ svcs' = Append(svcs, ProxyNew(matcher, Unwrap(cur_clusters), b.plugins))
            /\ si' = si + 1
            /\ ri' = 1
            /\ matcher' = MatchEntryNew
            /\ cur_clusters' = None
            /\ bpc' = IF si = Len(config.services) THEN "run" ELSE BuildStart(config, si + 1)
            /\ app_err' = app_err
       ELSE /\ bpc' = "failed"
            /\ app_err' = Some(<<"Builder", "PluginBuild", b.err>>)
            /\ UNCHANGED <<svcs, si, ri, matcher, cur_clusters>>
    /\ UNCHANGED <<config, last_insert, rate, reqs, probe, now, log_level>>

\* server.run_forever()
RunForever ==
    /\ bpc = "run"
    /\ bpc' = "serving"
    /\ UNCHANGED <<config, si, ri, matcher, last_insert, cur_clusters, svcs, app_err,
                   rate, reqs, probe, now, log_level>>

(***************************************************************************)
(* One request: the calls pingora's HTTP proxy makes on the ProxyHttp      *)
(* implementation, each an action.  pc names the call that comes next.     *)
(***************************************************************************)
build_vars == <<config, bpc, si, ri, matcher, last_insert, cur_clusters, svcs, app_err,
                log_level>>

StOf(q) == [session |-> q.session, rate |-> rate, trace |-> q.trace,
            out |-> "continue", err |-> NoError]

\* A request arrives at a listener of service s: new_ctx
Accept(r) ==
    /\ bpc = "serving"
    /\ reqs[r].pc = "new"
    /\ IF r = 1 THEN TRUE ELSE reqs[r - 1].pc # "new"
    /\ \E s \in DOMAIN svcs, u \in RequestUris :
         reqs' = [reqs EXCEPT ![r] = [NewReq EXCEPT !.pc = "request_filter", !.svc = s,
                                                     !.session = SessionNew(u),
                                                     !.ctx = new_ctx]]
    /\ UNCHANGED <<build_vars, rate, probe, now>>

\* request_filter whose Ok(true) does not end the request: the engine goes
\* on to the upstream as after Ok(false).
RequestFilter_StopProxies(r) ==
    /\ reqs[r].pc = "request_filter"
    /\ \E io \in IoOutcomes :
         LET q == reqs[r]
             res == request_filter(svcs[q.svc], StOf(q), q.ctx, io)
         IN /\ rate' = res.st.rate
            /\ reqs' = [reqs EXCEPT ![r] =
                 [q EXCEPT !.session = res.st.session,
                           !.trace = res.st.trace,
                           !.ctx = res.ctx,
                           !.rf = res.st.out,
                           !.win = now,
                           !.err = IF res.st.out = "err" THEN Some(res.st.err) ELSE None,
                           !.pc = IF res.st.out # "err" THEN "upstream_peer"
                                  ELSE "logging"]]
    /\ UNCHANGED <<build_vars, probe, now>>

\* Proxy::request_filter; Ok(true) and Err end the request, Ok(false) goes on.
\* win is the interval of the Rate estimators the handler ran in.
RequestFilter(r) ==
    /\ reqs[r].pc = "request_filter"
    /\ \E io \in IoOutcomes :
         LET q == reqs[r]
             res == request_filter(svcs[q.svc], StOf(q), q.ctx, io)
         IN /\ rate' = res.st.rate
            /\ reqs' = [reqs EXCEPT ![r] =
                 [q EXCEPT !.session = res.st.session,
                           !.trace = res.st.trace,
                           !.ctx = res.ctx,
                           !.rf = res.st.out,
                           !.win = now,
                           !.err = IF res.st.out = "err" THEN Some(res.st.err) ELSE None,
                           !.pc = IF res.st.out = "continue" THEN "upstream_peer"
                                  ELSE "logging"]]
    /\ UNCHANGED <<build_vars, probe, now>>

\* upstream_peer taking a cluster that gave no backend out of the
\* ClusterManager.
UpstreamPeer_Evict(r) ==
    /\ reqs[r].pc = "upstream_peer"
    /\ \E rnd \in 0..(MaxRnd - 1) :
         LET q == reqs[r]
             cm == svcs[q.svc].cluster_manager
             res == upstream_peer(cm, q.ctx.cluster, rnd)
             evict == ~res.ok /\ res.err.msg = "no backend"
         IN /\ reqs' = [reqs EXCEPT ![r] =
                 [q EXCEPT !.trace = Append(@, Ev("upstream_peer", "engine", 0, "")),
                           !.peer = res.peer,
                           !.err = IF res.ok THEN None ELSE Some(res.err),
                           !.pc = IF res.ok THEN "connect" ELSE "logging"]]
            /\ svcs' = IF evict
                       THEN [svcs EXCEPT ![q.svc].cluster_manager =
                                 [n \in DOMAIN cm \ {Unwrap(q.ctx.cluster)} |-> cm[n]]]
                       ELSE svcs
    /\ UNCHANGED <<config, bpc, si, ri, matcher, last_insert, cur_clusters, app_err,
                   log_level, rate, probe, now>>

\* Proxy::upstream_peer
UpstreamPeer(r) ==
    /\ reqs[r].pc = "upstream_peer"
    /\ \E rnd \in 0..(MaxRnd - 1) :
         LET q == reqs[r]
             res == upstream_peer(svcs[q.svc].cluster_manager, q.ctx.cluster, rnd)
         IN reqs' = [reqs EXCEPT ![r] =
                 [q EXCEPT !.trace = Append(@, Ev("upstream_peer", "engine", 0, "")),
                           !.peer = res.peer,
                           !.err = IF res.ok THEN None ELSE Some(res.err),
                           !.pc = IF res.ok THEN "connect" ELSE "logging"]]
    /\ UNCHANGED <<build_vars, rate, probe, now>>

\* The transport dials the peer.
Connect(r) ==
    /\ reqs[r].pc = "connect"
    /\ \E ok \in BOOLEAN :
         reqs' = [reqs EXCEPT ![r] =
                 [@ EXCEPT !.trace = Append(@, Ev("dial", "engine", 0, "")),
                           !.err = IF ok THEN None
                                   ELSE Some(Error("ConnectError", "", <<>>)),
                           !.pc = IF ok THEN "upstream_request_filter" ELSE "logging"]]
    /\ UNCHANGED <<build_vars, rate, probe, now>>

\* A handler that runs one phase over both tiers, then moves pc to next.
PhaseStep(r, phase, next) ==
    LET q == reqs[r]
        st == phase_filter(svcs[q.svc], phase, StOf(q), q.ctx)
    IN [q EXCEPT !.trace = st.trace,
                 !.err = IF st.out = "err" THEN Some(st.err) ELSE None,
                 !.pc = IF st.out = "err" THEN "logging" ELSE next]

\* Proxy::upstream_request_filter
UpstreamRequestFilter(r) ==
    /\ reqs[r].pc = "upstream_request_filter"
    /\ reqs' = [reqs EXCEPT ![r] = PhaseStep(r, "upstream_request_filter", "request_body")]
    /\ UNCHANGED <<build_vars, rate, probe, now>>

\* Proxy::request_body_filter, once per inbound chunk.
RequestBodyFilter(r) ==
    /\ reqs[r].pc = "request_body"
    /\ \E eos \in BOOLEAN :
         /\ eos \/ reqs[r].chunks_in + 1 < MaxChunks
         /\ reqs' = [reqs EXCEPT ![r] =
                 [PhaseStep(r, "request_body_filter",
                            IF eos THEN "response_filter" ELSE "request_body")
                  EXCEPT !.chunks_in = @ + 1]]
    /\ UNCHANGED <<build_vars, rate, probe, now>>

\* What the upstream answers.
UpstreamResponse == [status |-> 200, headers |-> <<>>]

\* Proxy::response_filter on the upstream's response header, which the
\* transport then writes to the client.
ResponseFilter(r) ==
    /\ reqs[r].pc = "response_filter"
    /\ reqs' = [reqs EXCEPT ![r] =
            [PhaseStep(r, "response_filter", "response_body")
             EXCEPT !.session.hdrs = Append(@, UpstreamResponse),
                    !.session.wlog = Append(@, "header")]]
    /\ UNCHANGED <<build_vars, rate, probe, now>>

\* Proxy::response_body_filter, once per outbound chunk.
ResponseBodyFilter(r) ==
    /\ reqs[r].pc = "response_body"
    /\ \E eos \in BOOLEAN :
         /\ eos \/ reqs[r].chunks_out + 1 < MaxChunks
         /\ reqs' = [reqs EXCEPT ![r] =
                 [PhaseStep(r, "response_body_filter",
                            IF eos THEN "logging" ELSE "response_body")
                  EXCEPT !.chunks_out = @ + 1]]
    /\ UNCHANGED <<build_vars, rate, probe, now>>

\* Proxy::logging
Logging(r) ==
    /\ reqs[r].pc = "logging"
    /\ reqs' = [reqs EXCEPT ![r] =
            [@ EXCEPT !.trace = Append(@, Ev("logging", "engine", 0, "")),
                      !.log = @ \o logging(reqs[r].session, reqs[r].err, log_level),
                      !.pc = "done"]]
    /\ UNCHANGED <<build_vars, rate, probe, now>>

\* The interval of the Rate estimators rolls over: the counts start anew.
RateTick ==
    /\ bpc = "serving"
    /\ now < MaxTicks
    /\ rate # <<>>
    /\ rate' = <<>>
    /\ now' = now + 1
    /\ UNCHANGED <<build_vars, reqs, probe>>

Next ==
    \/ InitRouteStep
    \/ NewClusterManager
    \/ BuildGlobalPlugins
    \/ RunForever
    \/ \E r \in ReqIds : Accept(r)
    \/ \E r \in ReqIds : RequestFilter(r)
    \/ \E r \in ReqIds : UpstreamPeer(r)
    \/ \E r \in ReqIds : Connect(r)
    \/ \E r \in ReqIds : UpstreamRequestFilter(r)
    \/ \E r \in ReqIds : RequestBodyFilter(r)
    \/ \E r \in ReqIds : ResponseFilter(r)
    \/ \E r \in ReqIds : ResponseBodyFilter(r)
    \/ \E r \in ReqIds : Logging(r)
    \/ RateTick

Spec == Init /\ [][Next]_vars


(***************************************************************************)
(* The route matcher on its own: init_routes over every list of up to      *)
(* MaxRoutes routes, then match_request on the paths of ProbeUris.         *)
(***************************************************************************)
RouteUniverse ==
    {RouteCfg("Exact", U_a, None, "c1"),
     RouteCfg("Exact", U_ab, None, "c1"),
     RouteCfg("Exact", U_brace2, None, "c1"),
     RouteCfg("Exact", U_ui, None, "c1"),
     RouteCfg("Prefix", U_root, None, "c1"),
     RouteCfg("Prefix", U_as, None, "c1"),
     RouteCfg("Prefix", U_astar, None, "c1"),
     RouteCfg("Prefix", <<"/", "*", "a", "*">>, None, "c1"),
     RouteCfg("Prefix", U_as \o REST, None, "c1"),
     RouteCfg("Regexp", <<"^", "/", "a">>, None, "c1"),
     RouteCfg("Regexp", <<"b", "$">>, None, "c1"),
     RouteCfg("Regexp", <<"/", "(", "a", ")", "?", "(", "b", ")">>, None, "c1"),
     RouteCfg("Regexp", <<"(">>, None, "c1")}

RouteLists == UNION {[1..n -> RouteUniverse] : n \in 1..MaxRoutes}

ProbeUris == {U_root, U_a, U_as, U_ab, U_abb, U_astarb, U_b, U_brace, U_u7}

InitRoute ==
    /\ \E rs \in RouteLists : InitWith(ConfigOf(<<ServiceCfg(None, rs, <<>>)>>))
    /\ log_level = DefaultLogLevel

\* match_request on the matcher init_routes returned.
MatchProbe ==
    /\ bpc = "clusters"
    /\ \E u \in ProbeUris :
         probe' = [kind |-> "match", uri |-> u, res |-> match_request(matcher, u)]
    /\ UNCHANGED <<build_vars, rate, reqs, now>>

NextRoute == InitRouteStep \/ MatchProbe

SpecRoute == InitRoute /\ [][NextRoute]_vars

(***************************************************************************)
(* Peer selection on its own: ClusterManager::new over every list of up to *)
(* MaxClusters clusters, then upstream_peer on a context whose cluster is  *)
(* unset or any name.                                                      *)
(***************************************************************************)
ClusterUniverse ==
    {C_static2, C_static0, C_dns, C_dnsNone, C_dnsFail, C_staticNull, C_staticBad, C_dnsBad,
     [ClusterCfg("c0", "Static", Some([endpoints |-> <<"10.0.0.3:80">>]))
         EXCEPT !.lb_policy = "random"],
     ClusterCfg("dns1", "DNS", None)}

ClusterLists == UNION {[1..n -> ClusterUniverse] : n \in 1..MaxClusters}

ClusterNames == {"c0", "c1", "dns0", "dns1", "ghost"}

InitPeer ==
    \E cs \in ClusterLists, ps \in {<<>>, <<[resolver_type |-> "DNS"]>>} :
        /\ InitWith([services |-> <<ServiceCfg(None, <<RouteCfg("Exact", U_a, None, "c1")>>, cs)>>,
                     discovery_providers |-> ps])
        /\ log_level = DefaultLogLevel

\* upstream_peer on the ClusterManager that was built.
PeerProbe ==
    /\ bpc = "plugins"
    /\ \E c \in {None} \cup {Some(n) : n \in ClusterNames}, rnd \in 0..(MaxRnd - 1) :
         probe' = [kind |-> "peer", cluster |-> c,
                   res |-> upstream_peer(Unwrap(cur_clusters), c, rnd)]
    /\ UNCHANGED <<build_vars, rate, reqs, now>>

\* discover() called on the discovery of a DNS cluster that was built, as
\* an update of its load balancer does.
DiscoverProbe ==
    /\ bpc = "plugins"
    /\ \E n \in DOMAIN Unwrap(cur_clusters) :
         /\ Unwrap(cur_clusters)[n].discovery = "dns"
         /\ probe' = [kind |-> "discover", cluster |-> Some(n),
                      res |-> DnsDiscover(Unwrap(cur_clusters)[n].name,
                                          Unwrap(cur_clusters)[n].port)]
    /\ UNCHANGED <<build_vars, rate, reqs, now>>

NextPeer == InitRouteStep \/ NewClusterManager \/ PeerProbe \/ DiscoverProbe

SpecPeer == InitPeer /\ [][NextPeer]_vars


(***************************************************************************)
(* Properties of the engine (Spec).                                        *)
(***************************************************************************)
\* The pipelines a matcher holds.
Pipelines(m) ==
    {m.non_reg_uri[i].value : i \in DOMAIN m.non_reg_uri}
        \cup {m.regex_uris[i].ppl : i \in DOMAIN m.regex_uris}

IsPluginCall(e) == e.tier # "engine"

\* Request r has left request_filter.
PastRequestFilter(r) == reqs[r].pc \notin {"new", "request_filter"}

\* Some plugin's request_filter returned stop = true for request r.
StoppedAt(r, k) ==
    /\ reqs[r].trace[k].ev = "request_filter"
    /\ IsPluginCall(reqs[r].trace[k])
    /\ reqs[r].trace[k].ret = "stop"

\* C1: once a plugin's request_filter (global or per-route) returns
\* stop = true, nothing else is called for the request but the logging hook:
\* no later request_filter, no request_body_filter, no
\* upstream_request_filter, no upstream_peer and no dial; no peer is held,
\* and Proxy::request_filter itself returned true.
C1_StopEndsRequest ==
    \A r \in ReqIds : \A k \in DOMAIN reqs[r].trace :
        StoppedAt(r, k) =>
            /\ \A j \in (k + 1)..Len(reqs[r].trace) : reqs[r].trace[j].ev = "logging"
            /\ reqs[r].rf = "stop"
            /\ reqs[r].peer = None
            /\ reqs[r].pc \in {"logging", "done"}

\* A request ended by a global plugin's stop although its URI matches a
\* route that has plugins of its own.
C1_Witness ==
    \E r \in ReqIds :
        /\ reqs[r].pc = "done"
        /\ \E k \in DOMAIN reqs[r].trace :
               StoppedAt(r, k) /\ reqs[r].trace[k].tier = "global"
        /\ LET hit == match_request(svcs[reqs[r].svc].matcher, reqs[r].session.uri) IN
           IsSome(hit) /\ Len(Unwrap(hit).ppl.plugins) > 0

\* The phase a handler runs, by the pc of the request.
PhasePcs == {"request_filter", "upstream_request_filter", "request_body",
             "response_filter", "response_body"}

PhaseAt(pc) ==
    IF pc = "request_body" THEN "request_body_filter"
    ELSE IF pc = "response_body" THEN "response_body_filter"
    ELSE pc

\* The calls of one invocation of a phase when nothing cuts it short: the g
\* global plugins in order, then the n plugins of the route in order.
ExpectedCalls(phase, g, n) ==
    [i \in 1..(g + n) |-> IF i <= g THEN <<phase, "global", i>>
                          ELSE <<phase, "route", i - g>>]

\* Plugin list `plugins` is built from the configured entries, in their order.
InConfigOrder(plugins, cfg) ==
    LET entries == IF IsSome(cfg) THEN Unwrap(cfg) ELSE <<>> IN
    /\ Len(plugins) = Len(entries)
    /\ \A i \in DOMAIN plugins :
           /\ plugins[i].kind = entries[i].name
           /\ plugins[i].kind = CMS_RATE_PLUGIN_NAME =>
                  plugins[i].total = Unwrap(entries[i].config).total

\* The plugin calls handler step q -> q2 added to the trace.
NewCalls(q, q2) ==
    SelectSeq(SubSeq(q2.trace, Len(q.trace) + 1, Len(q2.trace)), IsPluginCall)

\* C3: every invocation of a filter phase (one per body chunk for the body
\* phases) calls the global plugins before the per-route plugins, each tier
\* in configuration order, and no plugin more than once: the calls are a
\* prefix of global 1..g, route 1..n, and all of it when no call stopped or
\* failed.
C3_GlobalThenRouteInOrder ==
    [][\A r \in ReqIds :
         (reqs[r].pc \in PhasePcs /\ reqs'[r] # reqs[r]) =>
            LET q == reqs[r]
                q2 == reqs'[r]
                proxy == svcs[q.svc]
                calls == NewCalls(q, q2)
                exp == ExpectedCalls(PhaseAt(q.pc), Len(proxy.plugins), Len(q2.ctx.plugins))
            IN /\ Len(calls) <= Len(exp)
               /\ \A i \in DOMAIN calls :
                      <<calls[i].ev, calls[i].tier, calls[i].idx>> = exp[i]
               /\ (\A i \in DOMAIN calls : calls[i].ret = "continue") =>
                      Len(calls) = Len(exp)
               /\ InConfigOrder(proxy.plugins, config.services[q.svc].plugins)
               /\ \A ppl \in Pipelines(proxy.matcher) :
                      InConfigOrder(ppl.plugins,
                                    config.services[q.svc].routes[ppl.arc[2]].plugins)
               /\ q2.ctx.plugins # <<>> =>
                      \E ppl \in Pipelines(proxy.matcher) : q2.ctx.plugins = ppl.plugins
      ]_vars

\* A proxied request with two body chunks each way, through two global and
\* two per-route plugins.
C3_Witness ==
    \E r \in ReqIds :
        /\ reqs[r].pc = "done"
        /\ reqs[r].chunks_in >= 2
        /\ reqs[r].chunks_out >= 2
        /\ Len(svcs[reqs[r].svc].plugins) >= 2
        /\ Len(reqs[r].ctx.plugins) >= 2

\* C4: match_request is called only after every global plugin's
\* request_filter returned stop = false, and per-route request_filters only
\* after a match hit; when a global plugin stops the request no route is
\* matched, no 404 is written, and the context's plugins, cluster and
\* route_params stay unset.
C4_GlobalBeforeMatch ==
    \A r \in ReqIds :
        LET t == reqs[r].trace
            IsGlobalRf(e) == e.ev = "request_filter" /\ e.tier = "global"
            IsRouteRf(e) == e.ev = "request_filter" /\ e.tier = "route"
        IN /\ \A k \in DOMAIN t :
                  t[k].ev = "match_request" =>
                      /\ \A j \in DOMAIN t : IsGlobalRf(t[j]) => j < k /\ t[j].ret = "continue"
                      /\ Len(SelectSeq(t, IsGlobalRf)) = Len(svcs[reqs[r].svc].plugins)
           /\ \A k \in DOMAIN t :
                  IsRouteRf(t[k]) =>
                      /\ \E j \in 1..(k - 1) : t[j].ev = "match_request"
                      /\ IsSome(match_request(svcs[reqs[r].svc].matcher, reqs[r].session.uri))
           /\ \A k \in DOMAIN t :
                  (IsGlobalRf(t[k]) /\ t[k].ret = "stop") =>
                      /\ \A j \in DOMAIN t : t[j].ev \notin {"match_request", "send_404"}
                      /\ \A j \in DOMAIN reqs[r].session.hdrs :
                             reqs[r].session.hdrs[j].status # StatusNotFound
                      /\ reqs[r].ctx = new_ctx

\* A request for a URI no route matches, stopped by a global plugin.
C4_Witness ==
    \E r \in ReqIds :
        /\ reqs[r].pc = "done"
        /\ \E k \in DOMAIN reqs[r].trace :
               StoppedAt(r, k) /\ reqs[r].trace[k].tier = "global"
        /\ ~IsSome(match_request(svcs[reqs[r].svc].matcher, reqs[r].session.uri))


\* No global plugin stopped request r, and no route matches its URI path.
NoStopNoRoute(r) ==
    /\ PastRequestFilter(r)
    /\ \A k \in DOMAIN reqs[r].trace :
           ~(StoppedAt(r, k) /\ reqs[r].trace[k].tier = "global")
    /\ ~IsSome(match_request(svcs[reqs[r].svc].matcher, reqs[r].session.uri))

\* Every global plugin's request_filter returned stop = false for request r.
GlobalsAllPassed(r) ==
    LET Passed(e) == e.ev = "request_filter" /\ e.tier = "global" /\ e.ret = "continue" IN
    Len(SelectSeq(reqs[r].trace, Passed)) = Len(svcs[reqs[r].svc].plugins)

\* The response of a match miss.
NotFoundHeader ==
    [status |-> StatusNotFound,
     headers |-> <<<<"content-length", <<"9">>>>, <<"content-type", TEXT_PLAIN>>>>]

NotFoundBody == [data |-> Some(NOT_FOUND), eos |-> TRUE]

\* Request r ran no per-route plugin and no peer selection.
NoRouteNoPeer(r) ==
    /\ \A k \in DOMAIN reqs[r].trace :
           reqs[r].trace[k].tier # "route" /\ reqs[r].trace[k].ev # "upstream_peer"
    /\ reqs[r].peer = None

C7_RouteClustersDeclared ==
    /\ \A s \in DOMAIN svcs : \A ppl \in Pipelines(svcs[s].matcher) :
           ppl.cluster \in DOMAIN svcs[s].cluster_manager
    /\ \A r \in ReqIds : reqs[r].err # Some(Error("ConnectNoRoute", "", <<>>))

\* The plugin lists of a configured service: its global list and one list
\* per route.
PluginLists(sv) ==
    {sv.plugins} \cup {sv.routes[k].plugins : k \in DOMAIN sv.routes}

EntriesOf(cfg) == IF IsSome(cfg) THEN Unwrap(cfg) ELSE <<>>

PluginErrors == {"UnknownPlugin", "LackPluginConfig", "YamlErr", "ValidateErr", "SpecificErr"}

EntryBuilds(e) == create_plugin_builder(e.name, e.config, <<0, 0, 0>>).ok

\* C8: every plugin entry of a built service, global or per-route, has a
\* registered name and a configuration its builder accepts; a list whose
\* first entry that fails to build has an unregistered name fails with
\* UnknownPlugin under that name; a build failure reported as PluginBuild is
\* the error of a list of the service being built; and requests are handled
\* only when every list of every service was built, none of them ever
\* ending with a plugin configuration error.
C8_PluginsCheckedAtBuild ==
    /\ \A s \in DOMAIN svcs : \A L \in PluginLists(config.services[s]) :
           \A i \in DOMAIN EntriesOf(L) :
               /\ EntriesOf(L)[i].name \in PLUGIN_BUILDER_REGISTRY
               /\ EntryBuilds(EntriesOf(L)[i])
    /\ \A s \in DOMAIN config.services : \A L \in PluginLists(config.services[s]) :
           \A i \in DOMAIN EntriesOf(L) :
               (/\ EntriesOf(L)[i].name \notin PLUGIN_BUILDER_REGISTRY
                /\ \A j \in 1..(i - 1) : EntryBuilds(EntriesOf(L)[j])) =>
                   LET b == build_plugin_list(L, <<0, 0>>) IN
                   ~b.ok /\ b.err = "UnknownPlugin" /\ b.name = EntriesOf(L)[i].name
    /\ (bpc = "failed" /\ Unwrap(app_err)[2] = "PluginBuild") =>
           /\ Unwrap(app_err)[3] \in PluginErrors
           /\ \E L \in PluginLists(config.services[si]) :
                  LET b == build_plugin_list(L, <<0, 0>>) IN
                  ~b.ok /\ b.err = Unwrap(app_err)[3]
    /\ \A r \in ReqIds :
           /\ reqs[r].pc # "new" =>
                  /\ bpc = "serving"
                  /\ \A s \in DOMAIN config.services :
                         \A L \in PluginLists(config.services[s]) :
                             build_plugin_list(L, <<0, 0>>).ok
           /\ IsSome(reqs[r].err) => Unwrap(reqs[r].err).etype \notin PluginErrors

\* The build failed with UnknownPlugin on a list whose earlier entry was
\* built.
C8_Witness ==
    /\ bpc = "failed"
    /\ app_err = Some(<<"Builder", "PluginBuild", "UnknownPlugin">>)
    /\ \E L \in PluginLists(config.services[si]) :
           /\ Len(EntriesOf(L)) >= 2
           /\ EntriesOf(L)[2].name \notin PLUGIN_BUILDER_REGISTRY


(***************************************************************************)
(* Properties of the route matcher (SpecRoute).                            *)
(***************************************************************************)
\* The routes of the path router and of the regex list that match path u.
PathHits(m, u) == {i \in DOMAIN m.non_reg_uri : MatchSegs(m.non_reg_uri[i].segs, u).ok}

RegexHits(m, u) ==
    {i \in DOMAIN m.regex_uris : IsSome(RegexCaptures(m.regex_uris[i].re, u))}

\* C2: match_request(u) returns the pipeline of a path route (exact or
\* prefix) when one matches u, whatever the regex routes are; otherwise the
\* pipeline of the first regex route, in insertion order, that matches u;
\* otherwise None.
C2_PathRouterThenFirstRegex ==
    probe.kind = "match" =>
        LET u == probe.uri
            ph == PathHits(matcher, u)
            rh == RegexHits(matcher, u)
        IN IF ph # {}
           THEN /\ IsSome(probe.res)
                /\ \E i \in ph : Unwrap(probe.res).ppl = matcher.non_reg_uri[i].value
                /\ \A i \in DOMAIN matcher.regex_uris :
                       Unwrap(probe.res).ppl # matcher.regex_uris[i].ppl
           ELSE IF rh # {}
           THEN /\ IsSome(probe.res)
                /\ \E i \in rh :
                       /\ \A j \in rh : i <= j
                       /\ Unwrap(probe.res).ppl = matcher.regex_uris[i].ppl
           ELSE probe.res = None

\* A path both a path route and two regex routes match.
C2_Witness ==
    /\ probe.kind = "match"
    /\ PathHits(matcher, probe.uri) # {}
    /\ Cardinality(RegexHits(matcher, probe.uri)) >= 2

\* The exact and prefix routes of the service being built, by number.
PathRouteNos ==
    {k \in DOMAIN config.services[si].routes :
        /\ IsSome(config.services[si].routes[k].matcher.uri)
        /\ Unwrap(config.services[si].routes[k].matcher.uri).kind \in {"Exact", "Prefix"}}

PathOfRoute(k) == NormalizedPath(Unwrap(config.services[si].routes[k].matcher.uri))

\* C9 as stated: inserting an exact or prefix route whose normalized path
\* is identical to that of an earlier route returns success and leaves the
\* path router unchanged, every URI resolving as before.
C9_DuplicateInsertIsNoOp ==
    (/\ last_insert.kind \in {"Exact", "Prefix"}
     /\ \E k \in PathRouteNos : k < last_insert.route /\ PathOfRoute(k) = last_insert.path) =>
        /\ last_insert.out = "ok"
        /\ matcher.non_reg_uri = last_insert.before.non_reg_uri
        /\ \A u \in ProbeUris :
               match_request(matcher, u) = match_request(last_insert.before, u)

\* The prefix a Prefix route stands for: a trailing `*` is the wildcard.
PrefixText(p) == IF EndsWith(p, <<"*">>) THEN SubSeq(p, 1, Len(p) - 1) ELSE p

\* Route k, a path route, covers path u.
RouteCovers(k, u) ==
    LET uri == Unwrap(config.services[si].routes[k].matcher.uri) IN
    IF uri.kind = "Prefix" THEN StartsWith(u, PrefixText(uri.s))
    ELSE ParseRoute(uri.s).ok /\ MatchSegs(ParseRoute(uri.s).segs, u).ok

\* C10 as stated: for a route Prefix(P), every path that has P as a prefix
\* and that no other path route at least as specific covers is matched to
\* that route's pipeline, with the tail after P as parameter 0.
C10_PrefixMatchesTail ==
    probe.kind = "match" =>
        \A k \in PathRouteNos :
            LET uri == Unwrap(config.services[si].routes[k].matcher.uri)
                u == probe.uri
            IN (/\ uri.kind = "Prefix"
                /\ StartsWith(u, PrefixText(uri.s))
                /\ \A j \in PathRouteNos \ {k} :
                       RouteCovers(j, u) =>
                           /\ Unwrap(config.services[si].routes[j].matcher.uri).kind = "Prefix"
                           /\ Len(PathOfRoute(j)) < Len(PathOfRoute(k))) =>
                   /\ IsSome(probe.res)
                   /\ Unwrap(probe.res).ppl.arc = <<si, k>>
                   /\ RouteParamsGet(Unwrap(probe.res).params, 0)
                          = Some(Drop(u, Len(PrefixText(uri.s))))

(***************************************************************************)
(* Properties of peer selection (SpecPeer).                                *)
(***************************************************************************)
\* C6: upstream_peer fails with the custom error `no cluster` when the
\* context's cluster is unset, with ConnectNoRoute when the name is not in
\* the ClusterManager, and with the custom error `no backend` annotated
\* `cluster: <name>` when the load balancer has no endpoint to select; only
\* otherwise does it return a peer, and that peer is a backend of the
\* cluster's load balancer.
C6_UpstreamPeerOutcomes ==
    probe.kind = "peer" =>
        LET cm == Unwrap(cur_clusters)
            c == probe.cluster
            res == probe.res
        IN IF c = None
           THEN ~res.ok /\ res.peer = None /\ res.err = Error("Custom", "no cluster", <<>>)
           ELSE IF Unwrap(c) \notin DOMAIN cm
           THEN ~res.ok /\ res.peer = None /\ res.err = Error("ConnectNoRoute", "", <<>>)
           ELSE IF cm[Unwrap(c)].backends = <<>>
           THEN /\ ~res.ok
                /\ res.peer = None
                /\ res.err = Error("Custom", "no backend", <<"cluster: ", Unwrap(c)>>)
           ELSE /\ res.ok
                /\ IsSome(res.peer)
                /\ Unwrap(res.peer).backend \in Range(cm[Unwrap(c)].backends)

\* upstream_peer was asked for a cluster the ClusterManager does not hold,
\* while it holds one with two backends and one with none.
C6_Witness ==
    /\ probe.kind = "peer"
    /\ IsSome(probe.cluster)
    /\ Unwrap(probe.cluster) \notin DOMAIN Unwrap(cur_clusters)
    /\ \E n \in DOMAIN Unwrap(cur_clusters) : Len(Unwrap(cur_clusters)[n].backends) = 2
    /\ \E n \in DOMAIN Unwrap(cur_clusters) : Unwrap(cur_clusters)[n].backends = <<>>


\* The pattern of re matches the whole of path u, from its first character
\* to its last.
FullMatches(re, u) == ReMatchAt(re.items, u, 1, TRUE).ok

\* C11 as stated: on a path-router miss, the regex route selected is the
\* first one, in insertion order, whose pattern matches the full URI path;
\* when no pattern matches the full path no route is selected.
C11_RegexFullMatch ==
    (probe.kind = "match" /\ PathHits(matcher, probe.uri) = {}) =>
        LET full == {i \in DOMAIN matcher.regex_uris :
                        FullMatches(matcher.regex_uris[i].re, probe.uri)}
        IN IF full = {} THEN probe.res = None
           ELSE /\ IsSome(probe.res)
                /\ \E i \in full :
                       /\ \A j \in full : i <= j
                       /\ Unwrap(probe.res).ppl = matcher.regex_uris[i].ppl

\* C12 as stated: when a regex route is selected, get(i) is the text group i
\* of the pattern captured, for every group index i (group 0 being the whole
\* match), and nothing for a group that captured nothing.
C12_CapturesByGroupIndex ==
    (/\ probe.kind = "match"
     /\ PathHits(matcher, probe.uri) = {}
     /\ IsSome(probe.res)) =>
        \A i \in RegexHits(matcher, probe.uri) :
            (\A j \in RegexHits(matcher, probe.uri) : i <= j) =>
                LET caps == Unwrap(RegexCaptures(matcher.regex_uris[i].re, probe.uri)) IN
                \A g \in DOMAIN caps :
                    RouteParamsGet(Unwrap(probe.res).params, g - 1) = caps[g]


(***************************************************************************)
(* Properties of the plugins (Spec).                                       *)
(***************************************************************************)
\* The plugin a call of request q's trace was made on.
PluginOf(q, e) ==
    IF e.tier = "global" THEN svcs[q.svc].plugins[e.idx] ELSE q.ctx.plugins[e.idx]

\* Request q called request_filter of the cms_rate instance pl.
CalledRate(q, pl) ==
    \E k \in DOMAIN q.trace :
        /\ q.trace[k].ev = "request_filter"
        /\ IsPluginCall(q.trace[k])
        /\ PluginOf(q, q.trace[k]) = pl

\* The requests other than r that went through instance pl with path u in
\* the current interval, before now.
EarlierInWindow(r, pl, u) ==
    {r2 \in ReqIds \ {r} :
        /\ PastRequestFilter(r2)
        /\ reqs[r2].session.uri = u
        /\ reqs[r2].win = now
        /\ CalledRate(reqs[r2], pl)}

\* The response cms_rate sends over the limit.
TooManyHeader ==
    [status |-> StatusTooManyRequests,
     headers |-> <<<<"content-length", <<"0">>>>, <<"content-type", TEXT_PLAIN>>>>]

\* The calls of cms_rate instances that request r's request_filter makes in
\* this step, each with the number of earlier requests of the window.
RateCallsOfStep(r) ==
    LET q2 == reqs'[r]
        new == SubSeq(q2.trace, Len(reqs[r].trace) + 1, Len(q2.trace))
    IN {<<e, PluginOf(q2, e)>> : e \in {new[k] : k \in
            {j \in DOMAIN new : /\ IsPluginCall(new[j])
                                /\ PluginOf(q2, new[j]).kind = CMS_RATE_PLUGIN_NAME}}}

RateReturned(q, pl, ret) ==
    \E k \in DOMAIN q.trace :
        /\ q.trace[k].ev = "request_filter"
        /\ IsPluginCall(q.trace[k])
        /\ PluginOf(q, q.trace[k]) = pl
        /\ q.trace[k].ret = ret

RateInstances(s) ==
    {pl \in Range(svcs[s].plugins) \cup
            UNION {Range(ppl.plugins) : ppl \in Pipelines(svcs[s].matcher)} :
        pl.kind = CMS_RATE_PLUGIN_NAME}

\* The requests to path u that went through instance pl of service s in
\* window w, and those of them it passed.
ThroughRate(s, pl, u, w) ==
    {r \in ReqIds :
        /\ PastRequestFilter(r)
        /\ reqs[r].svc = s
        /\ reqs[r].session.uri = u
        /\ reqs[r].win = w
        /\ CalledRate(reqs[r], pl)}

AdmittedBy(s, pl, u, w) ==
    {r \in ThroughRate(s, pl, u, w) : RateReturned(reqs[r], pl, "continue")}

Min(a, b) == IF a <= b THEN a ELSE b

EntriesOfCall(q, e) ==
    IF e.tier = "global" THEN {EntriesOf(config.services[q.svc].plugins)[e.idx]}
    ELSE {EntriesOf(config.services[q.svc].routes[ppl.arc[2]].plugins)[e.idx] :
            ppl \in {p \in Pipelines(svcs[q.svc].matcher) : p.plugins = q.ctx.plugins}}

\* The request_filter calls of echo plugins in request q's trace.
EchoCalls(q) ==
    {k \in DOMAIN q.trace : /\ q.trace[k].ev = "request_filter"
                            /\ IsPluginCall(q.trace[k])
                            /\ PluginOf(q, q.trace[k]).kind = ECHO_PLUGIN_NAME}

EchoStatus(cf) ==
    IF "status_code" \in DOMAIN Unwrap(cf.config) THEN Unwrap(cf.config).status_code ELSE 200

HasHeader(resp, name, value) ==
    \E i \in DOMAIN resp.headers : resp.headers[i] = <<name, value>>

\* The response header written carries the entry's status and a
\* Content-Length of the entry's body length.
EchoHeaderOf(resp, cf) ==
    /\ resp.status = EchoStatus(cf)
    /\ HasHeader(resp, "content-length", Digits(Len(Unwrap(cf.config).body)))

NoUpstream(q) ==
    \A k \in DOMAIN q.trace : q.trace[k].ev \notin {"upstream_peer", "dial"}

ConfiguredValues(cf, name) ==
    LET y == Unwrap(cf.config)
        hs == IF "headers" \in DOMAIN y THEN y.headers ELSE <<>>
    IN {hs[i][2] : i \in {j \in DOMAIN hs : to_lowercase(hs[j][1]) = name}}

HeaderValues(resp, name) ==
    {resp.headers[i][2] : i \in {j \in DOMAIN resp.headers : resp.headers[j][1] = name}}

\* C16: the response an echo plugin wrote has the configured Content-Type,
\* whatever the letter case of the configured name, and no default
\* text/plain beside it; it has the default text/plain only when the entry
\* configures no Content-Type.
C16_ConfiguredContentType ==
    \A r \in ReqIds : \A k \in EchoCalls(reqs[r]) :
        LET q == reqs[r] IN
        \A cf \in EntriesOfCall(q, q.trace[k]) :
            q.trace[k].ret = "stop" =>
                LET cts == ConfiguredValues(cf, "content-type")
                    sent == HeaderValues(q.session.hdrs[1], "content-type")
                IN IF cts = {} THEN sent = {TEXT_PLAIN} ELSE sent = cts


\* Request q was answered by the core itself: the 404 of a match miss or a
\* plugin's request_filter that stopped or failed.
ShortCircuited(q) ==
    \E k \in DOMAIN q.trace :
        \/ q.trace[k].ev = "send_404"
        \/ /\ q.trace[k].ev = "request_filter" /\ IsPluginCall(q.trace[k])
           /\ q.trace[k].ret \in {"stop", "err"}

BodyLen(b) == IF IsSome(b.data) THEN Len(Unwrap(b.data)) ELSE 0

\* C17: a short-circuit response (404, 429, echo) is written header first,
\* then one body write with end-of-stream set, the header carrying a
\* Content-Length of the body's length (0 without a body); when the header
\* write fails nothing is written, and when the body write fails only the
\* header was.
C17_HeaderThenBody ==
    \A r \in ReqIds :
        LET q == reqs[r]
            s == q.session
        IN ShortCircuited(q) =>
            /\ s.wlog \in {<<>>, <<"header">>, <<"header", "body">>}
            /\ Len(s.hdrs) = Cardinality({i \in DOMAIN s.wlog : s.wlog[i] = "header"})
            /\ Len(s.bodies) = Cardinality({i \in DOMAIN s.wlog : s.wlog[i] = "body"})
            /\ s.hdrs = <<>> => s.bodies = <<>>
            /\ s.bodies # <<>> =>
                   /\ s.bodies[1].eos
                   /\ HasHeader(s.hdrs[1], "content-length", Digits(BodyLen(s.bodies[1])))
            /\ (IsSome(q.err) /\ Unwrap(q.err) = WriteError) <=> Len(s.wlog) < 2
            /\ NoUpstream(q)

\* One request got the whole 404 (header, then the body with end of
\* stream and its length announced), the other's echo response failed at
\* the header and nothing of it was written.
C17_Witness ==
    \E r1, r2 \in ReqIds :
        /\ r1 # r2
        /\ \E k \in DOMAIN reqs[r1].trace : reqs[r1].trace[k].ev = "send_404"
        /\ reqs[r1].session.wlog = <<"header", "body">>
        /\ BodyLen(reqs[r1].session.bodies[1]) > 0
        /\ \E k \in EchoCalls(reqs[r2]) : reqs[r2].trace[k].ret = "err"
        /\ reqs[r2].session.wlog = <<>>



(***************************************************************************)
(* Properties of the clusters' load balancers (SpecPeer).                  *)
(***************************************************************************)
\* The load balancers of the ClusterManager that was built, by name.
BuiltClusters == IF IsSome(cur_clusters) THEN Unwrap(cur_clusters) ELSE <<>>

DnsClusterNames == {n \in DOMAIN BuiltClusters : BuiltClusters[n].discovery = "dns"}

\* C18: a DNS cluster whose resolver yields a non-empty address set for the
\* configured host has exactly the backends (ip, configured port, weight 1)
\* of those addresses, and upstream_peer selects one of them; when the
\* resolver yields no address, upstream_peer fails with `no backend`,
\* annotated `cluster: <name>`.
C18_DnsBackends ==
    \A n \in DnsClusterNames :
        LET lb == BuiltClusters[n]
            S == Range(DnsDiscover(lb.name, lb.port).backends)
        IN /\ S # {} => Range(lb.backends) = S
           /\ (probe.kind = "peer" /\ probe.cluster = Some(n)) =>
                  IF S # {}
                  THEN /\ probe.res.ok
                       /\ Unwrap(probe.res.peer).backend \in S
                  ELSE /\ ~probe.res.ok
                       /\ probe.res.err = Error("Custom", "no backend", <<"cluster: ", n>>)


\* The selection policy a configured lb_policy names.
PolicyNamed(lb_policy) ==
    CASE lb_policy = "round_robin" -> "RoundRobin"
      [] lb_policy = "least_conn" -> "LeastConn"
      [] lb_policy = "random" -> "Random"
      [] OTHER -> "Unsupported"

\* C19: the load balancer built for a cluster, DNS or static, selects with
\* the policy the cluster's lb_policy names.
C19_PolicyAsConfigured ==
    IsSome(cur_clusters) =>
        LET cfgs == config.services[si].clusters IN
        \A i \in DOMAIN cfgs :
            (\A j \in DOMAIN cfgs : j > i => cfgs[j].name # cfgs[i].name) =>
                BuiltClusters[cfgs[i].name].policy = PolicyNamed(cfgs[i].lb_policy)



(***************************************************************************)
(* The engine under a runtime that keeps driving every accepted request:   *)
(* each request is a task of the server's runtime, and a handler that can  *)
(* take its next step is eventually run.                                   *)
(***************************************************************************)
AfterRequestFilter(r) ==
    \/ UpstreamPeer(r)
    \/ Connect(r)
    \/ UpstreamRequestFilter(r)
    \/ RequestBodyFilter(r)
    \/ ResponseFilter(r)
    \/ ResponseBodyFilter(r)
    \/ Logging(r)

\* Weak fairness of RequestFilter(r), with ENABLED <<RequestFilter(r)>>_vars
\* written out: the handler can run, and changes the request, exactly when
\* the request is at request_filter.
FairRequestFilter(r) ==
    \/ []<>(reqs[r].pc # "request_filter")
    \/ []<><<RequestFilter(r)>>_vars

SpecLive ==
    Spec /\ \A r \in ReqIds : FairRequestFilter(r) /\ WF_vars(AfterRequestFilter(r))

LoggingCalls(q) == {k \in DOMAIN q.trace : q.trace[k].ev = "logging"}

InfoLines(q) == SelectSeq(q.log, LAMBDA l : l.level = "info")
ErrorLines(q) == SelectSeq(q.log, LAMBDA l : l.level = "error")

\* The status of the response written to the client, 500 when none was.
WrittenStatus(q) ==
    IF q.session.hdrs # <<>> THEN q.session.hdrs[Len(q.session.hdrs)].status
    ELSE StatusInternalServerError

LoggedOnceAtEnd(r) ==
    LET q == reqs[r] IN
    /\ Cardinality(LoggingCalls(q)) = IF q.pc = "done" THEN 1 ELSE 0
    /\ q.pc # "done" => q.log = <<>>
    /\ q.pc = "done" =>
           /\ q.trace[Len(q.trace)].ev = "logging"
           /\ Len(q.log) = Len(InfoLines(q)) + Len(ErrorLines(q))
           /\ IF log_enabled(log_level, "info")
              THEN /\ Len(InfoLines(q)) = 1
                   /\ InfoLines(q)[1].status = WrittenStatus(q)
                   /\ InfoLines(q)[1].uri = q.session.uri
              ELSE InfoLines(q) = <<>>
           /\ IF IsSome(q.err) /\ log_enabled(log_level, "error")
              THEN ErrorLines(q) = <<[level |-> "error", error |-> Unwrap(q.err)]>>
              ELSE ErrorLines(q) = <<>>

FailedAt(q, k) ==
    \/ IsPluginCall(q.trace[k]) /\ q.trace[k].ret = "err"
    \/ /\ q.trace[k].ev = "upstream_peer"
       /\ ~IsSome(q.peer)
       /\ q.pc \in {"logging", "done"}

\* C21: a runtime error is local to one request.  After a plugin filter or
\* the peer selection of a request returned an error, nothing but the
\* logging hook runs for that request, and the hook is handed the error.
\* A step of a request leaves every other request, the built services and
\* their matchers, clusters and plugins as they were, and leaves the rate
\* counters exactly as the same step does when none of its writes fails.
C21_ErrorIsLocal ==
    /\ [](\A r \in ReqIds :
            LET q == reqs[r] IN
            \A k \in DOMAIN q.trace :
                FailedAt(q, k) =>
                    /\ \A j \in DOMAIN q.trace : j > k => q.trace[j].ev = "logging"
                    /\ IsSome(q.err)
                    /\ q.pc \in {"logging", "done"}
                    /\ (q.pc = "done" /\ log_enabled(log_level, "error")) =>
                           ErrorLines(q) = <<[level |-> "error", error |-> Unwrap(q.err)]>>)
    /\ [][\A r \in ReqIds :
            reqs'[r] # reqs[r] =>
                /\ \A b \in ReqIds \ {r} : reqs'[b] = reqs[b]
                /\ UNCHANGED build_vars
                /\ IF reqs[r].pc = "request_filter"
                   THEN \A io \in IoOutcomes :
                            request_filter(svcs[reqs[r].svc], StOf(reqs[r]),
                                           reqs[r].ctx, io).st.rate = rate'
                   ELSE rate' = rate
      ]_vars

\* One request ended with the error of a plugin's filter, the other, to a
\* path with the same global plugins, was proxied and logged without error.
C21_Witness ==
    \E a, b \in ReqIds :
        /\ a # b
        /\ reqs[a].pc = "done" /\ reqs[b].pc = "done"
        /\ \E k \in DOMAIN reqs[a].trace :
               IsPluginCall(reqs[a].trace[k]) /\ reqs[a].trace[k].ret = "err"
        /\ IsSome(reqs[a].err)
        /\ ~NoUpstream(reqs[b]) /\ ~IsSome(reqs[b].err)
        /\ reqs[b].chunks_out > 0


\* C22: startup is all-or-nothing.  A build that does not complete ends
\* with `run` returning the error of the step that failed; then no request
\* is ever served, whatever services were built before the failing one;
\* and requests are served only once every service was built.
C22_StartupAllOrNothing ==
    /\ bpc # "panicked"
    /\ bpc = "failed" =>
           /\ IsSome(app_err)
           /\ \A r \in ReqIds : reqs[r].pc = "new"
    /\ (bpc = "serving" \/ \E r \in ReqIds : reqs[r].pc # "new") =>
           /\ bpc = "serving"
           /\ ~IsSome(app_err)
           /\ Len(svcs) = Len(config.services)



(***************************************************************************)
(* Properties of ClusterManager::new (SpecPeer).                           *)
(***************************************************************************)
\* The error the claim names for one cluster record, "" for a good one.
ClusterConfigError(cfg, resolvers) ==
    IF cfg.resolver = "DNS"
    THEN IF "DNS" \notin resolvers THEN "UnknownResolver"
         ELSE IF ~IsSome(cfg.config) THEN "LackConfig"
         ELSE IF ~({"host", "port"} \subseteq DOMAIN Unwrap(cfg.config)) THEN "DiscoveryConfig"
         ELSE ""
    ELSE IF ~IsSome(cfg.config) THEN "LackConfig"
         ELSE IF "endpoints" \notin DOMAIN Unwrap(cfg.config) THEN "StaticConfig"
         ELSE ""

\* C23: once ClusterManager::new has run, it has either built the manager,
\* every record being good, or reported the error of the first bad record
\* (UnknownResolver, LackConfig, StaticConfig or DiscoveryConfig) and built
\* no manager; it never ends in another way.
C23_BadClusterIsAnError ==
    bpc \in {"plugins", "failed", "panicked"} =>
        LET cfgs == config.services[si].clusters
            resolvers == init_discovery_providers(config.discovery_providers)
            bad == {i \in DOMAIN cfgs : ClusterConfigError(cfgs[i], resolvers) # ""}
        IN IF bad = {}
           THEN bpc = "plugins" /\ IsSome(cur_clusters)
           ELSE LET i == CHOOSE j \in bad : \A k \in bad : j <= k IN
                /\ bpc = "failed"
                /\ app_err = Some(<<"Cluster", ClusterConfigError(cfgs[i], resolvers), "">>)
                /\ ~IsSome(cur_clusters)


\* C24: when the resolver's lookup fails, discover() returns an error value
\* or an empty endpoint set, and upstream_peer on the cluster fails with
\* `no backend`.
C24_LookupFailureIsNoBackend ==
    \A n \in DnsClusterNames :
        ~lookup_ip(BuiltClusters[n].name).ok =>
            /\ (probe.kind = "discover" /\ probe.cluster = Some(n)) =>
                   \/ probe.res.out = "err"
                   \/ probe.res.out = "ok" /\ probe.res.backends = <<>>
            /\ (probe.kind = "peer" /\ probe.cluster = Some(n)) =>
                   /\ ~probe.res.ok
                   /\ probe.res.err = Error("Custom", "no backend", <<"cluster: ", n>>)



(***************************************************************************)
(* Properties of revise_prefix and insert_route (SpecRoute).               *)
(***************************************************************************)
\* The prefix the claim has revise_prefix return: a trailing `*` alone
\* replaced by {*rest}, or {*rest} appended.
TrailingStarRevised(p) ==
    IF EndsWith(p, <<"*">>) THEN SubSeq(p, 1, Len(p) - 1) \o REST ELSE p \o REST

\* C25: the path init_routes gives the router for a prefix route is the
\* prefix with only its trailing `*` replaced by {*rest}, or, without a
\* trailing `*`, the prefix followed by {*rest}.
C25_OnlyTrailingStar ==
    (last_insert # NoInsert /\ last_insert.kind = "Prefix") =>
        last_insert.path =
            TrailingStarRevised(Unwrap(config.services[si].routes[last_insert.route].matcher.uri).s)


\* The paths of ProbeUris the route `path`, alone in a router, matches:
\* none when the router refuses the route.
UrisOfRoute(path) ==
    LET r == RouterInsert(RouterNew, path, 0) IN
    IF ~r.ok THEN {} ELSE {u \in ProbeUris : IsSome(RouterAt(r.router, u))}

\* C26: a prefix route whose prefix already ends in {*rest} is built: the
\* router accepts the revised prefix, and the route matches the same paths
\* as the prefix taken as a route itself.
C26_RevisedRestIsSameRoute ==
    (/\ last_insert # NoInsert
     /\ last_insert.kind = "Prefix"
     /\ EndsWith(Unwrap(config.services[si].routes[last_insert.route].matcher.uri).s, REST)) =>
        LET p == Unwrap(config.services[si].routes[last_insert.route].matcher.uri).s IN
        /\ last_insert.out = "ok"
        /\ RouterInsert(RouterNew, revise_prefix(p), 0).ok
        /\ UrisOfRoute(revise_prefix(p)) = UrisOfRoute(p)



(***************************************************************************)
(* Properties of the per-request context and the shared state (Spec).      *)
(***************************************************************************)
\* Request q's handler reached match_request.
Matched(q) == \E k \in DOMAIN q.trace : q.trace[k].ev = "match_request"

\* The context Proxy::request_filter leaves for request q: the default one
\* until a route is matched, then the matched route's plugins, cluster
\* and parameters.
CtxOfRoute(q) ==
    LET hit == match_request(svcs[q.svc].matcher, q.session.uri) IN
    IF Matched(q) /\ IsSome(hit)
    THEN [plugins |-> Unwrap(hit).ppl.plugins,
          cluster |-> Some(Unwrap(hit).ppl.cluster),
          plugin_ctx |-> [route_params |-> Some(Unwrap(hit).params)]]
    ELSE new_ctx

\* C27: every request has a context of its own.  It is the default context
\* when the request is accepted, and from then on it holds the plugins,
\* cluster and parameters of the route the request's own URI matched;
\* upstream_peer selects in that route's cluster; and a step changes the
\* context of the one request that takes it, in its request_filter only.
C27_OwnContext ==
    /\ [](\A r \in ReqIds :
            LET q == reqs[r] IN
            /\ q.pc \in {"new", "request_filter"} => q.ctx = new_ctx
            /\ q.pc \notin {"new", "request_filter"} => q.ctx = CtxOfRoute(q))
    /\ [][\A r \in ReqIds :
            /\ (reqs[r].pc = "upstream_peer" /\ reqs'[r] # reqs[r]) =>
                   \E rnd \in 0..(MaxRnd - 1) :
                       LET res == upstream_peer(svcs[reqs[r].svc].cluster_manager,
                                                CtxOfRoute(reqs[r]).cluster, rnd)
                       IN /\ reqs'[r].peer = res.peer
                          /\ reqs'[r].err = IF res.ok THEN None ELSE Some(res.err)
            /\ reqs'[r].ctx # reqs[r].ctx =>
                   /\ reqs[r].pc \in {"new", "request_filter"}
                   /\ \A b \in ReqIds \ {r} : reqs'[b] = reqs[b]
      ]_vars

\* Two requests in flight together, bound to different routes: one about to
\* select its peer, the other past its request_filter.
C27_Witness ==
    \E a, b \in ReqIds :
        /\ a # b
        /\ reqs[a].pc = "upstream_peer"
        /\ reqs[b].pc \in {"upstream_peer", "connect", "logging"}
        /\ IsSome(reqs[a].ctx.cluster) /\ IsSome(reqs[b].ctx.cluster)
        /\ reqs[a].ctx # reqs[b].ctx
        /\ reqs[a].session.uri # reqs[b].session.uri


\* C28: the shared state is read-only while requests are handled.  A step
\* of a request leaves the built services (each one's matcher, its
\* ClusterManager and its global and per-route plugin lists), the build's
\* matcher and clusters as they were, and get_cluster answers the same for
\* every name before and after the step.
C28_SharedStateReadOnly ==
    [][reqs' # reqs =>
          /\ svcs' = svcs
          /\ matcher' = matcher
          /\ cur_clusters' = cur_clusters
          /\ \A s \in DOMAIN svcs :
                 /\ svcs'[s].matcher = svcs[s].matcher
                 /\ svcs'[s].plugins = svcs[s].plugins
                 /\ Pipelines(svcs'[s].matcher) = Pipelines(svcs[s].matcher)
                 /\ \A n \in ClusterNames :
                        get_cluster(svcs'[s].cluster_manager, n)
                            = get_cluster(svcs[s].cluster_manager, n)
      ]_vars

\* Both requests were handled to the end, one at least through
\* upstream_peer, by services that hold clusters and routes.
C28_Witness ==
    /\ bpc = "serving"
    /\ \A r \in ReqIds : reqs[r].pc = "done"
    /\ \E r \in ReqIds :
           \E k \in DOMAIN reqs[r].trace : reqs[r].trace[k].ev = "upstream_peer"
    /\ \E s \in DOMAIN svcs :
           /\ svcs[s].cluster_manager # <<>>
           /\ Pipelines(svcs[s].matcher) # {}


\* The cluster configuration service s's ClusterManager holds name n for:
\* the last one of that name.
ClusterCfgOf(s, n) ==
    LET cs == config.services[s].clusters
        k == CHOOSE i \in DOMAIN cs :
                 cs[i].name = n /\ \A j \in DOMAIN cs : cs[j].name = n => j <= i
    IN cs[k]

\* The static clusters of the built service s.
StaticClusterNames(s) ==
    {n \in DOMAIN svcs[s].cluster_manager : svcs[s].cluster_manager[n].discovery = "static"}

\* C29: the endpoints of a static cluster are those of its configuration,
\* whatever requests were handled: select_backend returns a configured
\* endpoint whenever the configured list is not empty, None only when it is
\* empty, and the peer of a request routed to the cluster is one of them.
C29_StaticEndpointsFrozen ==
    \A s \in DOMAIN svcs :
        /\ \A n \in StaticClusterNames(s) :
               LET eps == Range(Unwrap(ClusterCfgOf(s, n).config).endpoints)
                   lb == svcs[s].cluster_manager[n]
               IN \A rnd \in 0..(MaxRnd - 1) :
                      LET b == select_backend(lb, rnd) IN
                      /\ IsSome(b) => Unwrap(b).addr \in eps
                      /\ IsSome(b) <=> eps # {}
        /\ \A r \in ReqIds :
               LET q == reqs[r] IN
               (q.svc = s /\ IsSome(q.peer) /\ IsSome(q.ctx.cluster)
                    /\ Unwrap(q.ctx.cluster) \in StaticClusterNames(s)) =>
                   Unwrap(q.peer).backend.addr
                       \in Range(Unwrap(ClusterCfgOf(s, Unwrap(q.ctx.cluster)).config).endpoints)

\* Both requests were handled to the end by a service with two static
\* clusters, one with endpoints and one without; one request was routed to
\* the empty one and got no backend.
C29_Witness ==
    /\ \A r \in ReqIds : reqs[r].pc = "done"
    /\ \E s \in DOMAIN svcs :
           /\ \E n \in StaticClusterNames(s) : svcs[s].cluster_manager[n].backends # <<>>
           /\ \E n \in StaticClusterNames(s) :
                  /\ svcs[s].cluster_manager[n].backends = <<>>
                  /\ \E r \in ReqIds :
                         /\ reqs[r].svc = s
                         /\ reqs[r].ctx.cluster = Some(n)
                         /\ IsSome(reqs[r].err)
                         /\ Unwrap(reqs[r].err).msg = "no backend"


\* The exact routes of the service whose path is a literal one (no brace)
\* and differs from the normalized path of every path route before them.
NewLiteralExactNos ==
    {k \in PathRouteNos :
        /\ Unwrap(config.services[si].routes[k].matcher.uri).kind = "Exact"
        /\ Range(PathOfRoute(k)) \cap {"{", "}"} = {}
        /\ \A j \in PathRouteNos : j < k => PathOfRoute(j) # PathOfRoute(k)}

\* C30: insert_route drops a route only when its normalized path was
\* inserted before.  Once init_routes has returned the matcher, a request
\* for the literal path of an exact route whose path differs from every
\* earlier one is matched to that route's own pipeline.
C30_NewExactRouteIsRegistered ==
    bpc = "clusters" =>
        \A k \in NewLiteralExactNos :
            LET hit == match_request(matcher, PathOfRoute(k)) IN
            /\ IsSome(hit)
            /\ Unwrap(hit).ppl.arc = <<si, k>>



(***************************************************************************)
(* Properties of peer selection and of synthetic responses (Spec).         *)
(***************************************************************************)
\* upstream_peer was invoked for request q.
PeerInvoked(q) == \E k \in DOMAIN q.trace : q.trace[k].ev = "upstream_peer"

\* C31: upstream_peer is only invoked with the context's cluster set.  A
\* request that is about to select its peer, or has done so, holds the
\* cluster of a matched route; a request whose request_filter stopped or
\* failed never selects a peer; and no request ends with `no cluster`.
C31_NoClusterUnreachable ==
    \A r \in ReqIds :
        LET q == reqs[r] IN
        /\ (q.pc = "upstream_peer" \/ PeerInvoked(q)) =>
               /\ IsSome(q.ctx.cluster)
               /\ q.rf = "continue"
               /\ IsSome(match_request(svcs[q.svc].matcher, q.session.uri))
        /\ q.rf \in {"stop", "err"} => ~PeerInvoked(q) /\ q.pc \in {"logging", "done"}
        /\ IsSome(q.err) => Unwrap(q.err).msg # "no cluster"

\* One request had its peer selected; another was stopped by a global
\* plugin before any route was matched, so its context has no cluster;
\* both were handled to the end.
C31_Witness ==
    \E a, b \in ReqIds :
        /\ a # b
        /\ reqs[a].pc = "done" /\ reqs[b].pc = "done"
        /\ PeerInvoked(reqs[a]) /\ IsSome(reqs[a].peer)
        /\ reqs[b].rf \in {"stop", "err"}
        /\ ~IsSome(reqs[b].ctx.cluster)


\* The calls of request q's trace that ended its request_filter with
\* stop = true: a plugin's request_filter that returned it, or the 404.
StopCalls(q) ==
    {k \in DOMAIN q.trace :
        \/ q.trace[k].ev = "send_404" /\ q.rf = "stop"
        \/ /\ q.trace[k].ev = "request_filter" /\ IsPluginCall(q.trace[k])
           /\ q.trace[k].ret = "stop"}

\* The plugin calls of the response phases in request q's trace.
ResponsePhaseCalls(q) ==
    {k \in DOMAIN q.trace : /\ IsPluginCall(q.trace[k])
                            /\ q.trace[k].ev \in {"response_filter", "response_body_filter"}}

\* The session send_response leaves for call k of StopCalls(q), all of its
\* writes done.
SessionSentBy(q, k) ==
    LET s0 == SessionNew(q.session.uri)
        e == q.trace[k]
    IN IF e.ev = "send_404"
       THEN send_response(s0, StatusNotFound, None, Some(NOT_FOUND), None, "ok").session
       ELSE LET pl == PluginOf(q, e) IN
            IF pl.kind = ECHO_PLUGIN_NAME
            THEN send_response(s0, pl.status_code, None, Some(pl.body), pl.headers, "ok").session
            ELSE send_response(s0, StatusTooManyRequests, None, None, None, "ok").session

\* C32: a short-circuited request never reaches the response phases.  For
\* a request ended by stop = true (a plugin's or the 404's) no plugin's
\* response_filter or response_body_filter is called, no upstream is
\* contacted, and what the client was sent is what the one send_response
\* wrote, from then on; a response phase plugin is only called for a
\* request that was proxied, on the upstream's response.
C32_NoResponsePhaseAfterStop ==
    /\ [](\A r \in ReqIds :
            LET q == reqs[r] IN
            /\ StopCalls(q) # {} =>
                   /\ Cardinality(StopCalls(q)) = 1
                   /\ ResponsePhaseCalls(q) = {}
                   /\ NoUpstream(q)
                   /\ q.chunks_out = 0
                   /\ \A k \in StopCalls(q) : q.session = SessionSentBy(q, k)
            /\ ResponsePhaseCalls(q) # {} =>
                   /\ StopCalls(q) = {}
                   /\ q.rf = "continue"
                   /\ \E k \in DOMAIN q.trace : q.trace[k].ev = "dial"
                   /\ q.session.hdrs \in {<<>>, <<UpstreamResponse>>}
                   /\ q.session.bodies = <<>>)
    /\ [][\A r \in ReqIds :
            StopCalls(reqs[r]) # {} => reqs'[r].session = reqs[r].session]_vars

\* Both requests were handled to the end: one was short-circuited and its
\* client holds the synthetic response, the other was proxied and plugins
\* ran on the upstream's response in both response phases.
C32_Witness ==
    \E a, b \in ReqIds :
        /\ a # b
        /\ reqs[a].pc = "done" /\ reqs[b].pc = "done"
        /\ StopCalls(reqs[a]) # {}
        /\ Len(reqs[a].session.hdrs) = 1 /\ Len(reqs[a].session.bodies) = 1
        /\ \E k \in ResponsePhaseCalls(reqs[b]) : reqs[b].trace[k].ev = "response_filter"
        /\ \E k \in ResponsePhaseCalls(reqs[b]) : reqs[b].trace[k].ev = "response_body_filter"
        /\ reqs[b].session.hdrs = <<UpstreamResponse>>


\* The values of the entries named name in a written response header, one
\* per entry, in order.
HeaderEntries(resp, name) ==
    SelectSeq(resp.headers, LAMBDA h : to_lowercase(h[1]) = name)

\* C33: a response written by send_response carries exactly one
\* Content-Length header, and once the body is written too its value is
\* the length of that body, whatever headers the caller supplied.
C33_OneContentLength ==
    \A r \in ReqIds :
        LET q == reqs[r] IN
        (ShortCircuited(q) /\ q.session.hdrs # <<>>) =>
            LET cls == HeaderEntries(q.session.hdrs[1], "content-length") IN
            /\ Len(cls) = 1
            /\ q.session.bodies # <<>> =>
                   cls[1][2] = Digits(BodyLen(q.session.bodies[1]))

====
